---- MODULE Spec2Model ----
(***************************************************************************)
(* Model of the compose orchestrator of internal/foundation/compose:       *)
(* Service.Start, Service.Stop, Service.WaitForHealthy (with Service.Status) *)
(* and the dependency planner, run step by step against a container engine *)
(* that holds containers, networks, volumes and images.                    *)
(* Every engine call of the code is one step; an engine call may fail, and *)
(* it always fails once the context it is given is cancelled.              *)
(***************************************************************************)
EXTENDS Integers, Sequences, FiniteSets, TLC

\* ------------------------------------------------------------------ bounds
MaxCalls == 2      \* public calls (and runs of the planner) begun in one behaviour
MaxTimeout == 2    \* the longest timeout of WaitForHealthy, in poll intervals
MaxFaults == 2     \* disruptions: engine objects that refuse a call, cancellations,
                   \* containers that exit on their own

\* ------------------------------------------------------- program constants
\* (mutant) One attempt more than the retry loops make.
RemoveAttempts_OneMore == 3 + 1
RemoveAttempts == 3    \* for attempt := 0; attempt < 3; attempt++

\* ------------------------------------------------------------- the project
\* s.project: the services, networks and volumes the compose file declares.
Services == {"db", "api"}
Networks == {"default"}
Volumes == {"data"}
\* svc.Networks and the svc.Volumes entries of type "volume"
svcNetworks == [s \in Services |-> {"default"}]
svcVolumes == [s \in Services |-> IF s = "db" THEN {"data"} ELSE {}]

\* One Service instance per thread of control.
Instances == {1, 2}

\* A scoped name is a pair <<declared name, suffix>>: suffix "" is the name the
\* code builds with Sprintf, suffix "0" the same text with one more character
\* (p1-db-10 for p1-db-1).
ScopedName(n) == <<n, "">>
containerName(s) == ScopedName(s)
LongerName(n) == <<n, "0">>

\* The engine's "name" filter: the listed name contains the filter text.
NameFilter(name, pattern) ==
    /\ name[1] = pattern[1]
    /\ (pattern[2] = "" \/ name[2] = pattern[2])

Nil == "nil"

VARIABLES
    containers,   \* engine: set of [id, name, proj, svc, state]
    networks,     \* engine: set of [id, name, proj, role]
    volumes,      \* engine: set of [name, proj, role]
    images,       \* engine: services whose image is present locally
    nextId,       \* engine: next container / network id
    dependsOn,    \* project: svc.DependsOn of every service
    networkIDs,   \* s.networkIDs of every instance
    volumeNames,  \* s.volumeNames of every instance
    op,           \* the public call an instance is running ("idle" if none)
    pc,           \* position of that call
    ctx,          \* the context the running code was given: "live" or "cancelled"
    rollback,     \* TRUE while Stop runs as the cleanup of a failed Start
    startErr,     \* Start's startErr
    lastErr,      \* lastErr of the running Stop phase
    phaseErr,     \* what the three Stop phases returned to Stop
    attempt,      \* attempt of the running removal loop
    todoNets,     \* networks Start has still to look up
    todoVols,     \* volumes Start has still to look up
    ordered,      \* orderedServices not yet started
    listed,       \* the list a Stop phase iterates over (what is left of it)
    cur,          \* the network, volume or container id the running Start step is about
    ret,          \* what the call returned
    trace,        \* the engine calls of the running public call, in order
    calls,        \* public calls begun
    faults,       \* engine faults injected
    lastStart,    \* history: the running containers when the previous call was a
                  \* Start that returned nil
    lastStop,     \* history: the previous call was a Stop, and it left nothing of
                  \* the project on the engine
    services,     \* project: the names of s.project.Services
    userLabels,   \* project: what the compose file declares, for every network,
                  \* volume and service, under the keys of the project label and
                  \* of the role label ("" when it declares nothing)
    healthOf,     \* engine: State.Health.Status of the containers that have a healthcheck
    timeout,      \* WaitForHealthy: its timeout, in poll intervals
    elapsed,      \* WaitForHealthy: the time since it computed its deadline
    status,       \* WaitForHealthy: status.Services of the running poll
    plan          \* the locals of a run of sortServicesByDependency taken step by step

waitLocals == <<timeout, elapsed, status>>
project == <<services, userLabels>>
more == <<lastStop, project, healthOf, waitLocals, plan>>

vars == <<containers, networks, volumes, images, nextId, dependsOn, networkIDs,
          volumeNames, op, pc, ctx, rollback, startErr, lastErr, phaseErr, attempt,
          todoNets, todoVols, ordered, listed, cur, ret, trace, calls, faults, lastStart, more>>

engine == <<containers, networks, volumes, images, nextId>>
memory == <<networkIDs, volumeNames>>
startLocals == <<startErr, todoNets, todoVols, ordered, cur>>
stopLocals == <<lastErr, phaseErr, attempt, listed>>

\* ------------------------------------------------------------- the engine
\* The label com.docker.compose.project=<s.projectName> is the field proj.
\* (mutant) A Stop that finds its containers by their scoped names.
ProjectContainers_ByName == {c \in containers : c.name[2] = ""}

ProjectContainers == {c \in containers : c.proj}
\* (mutant) The networks the running instance remembers from its Start.
ProjectNetworks_Remembered ==
    {n \in networks : \E t \in Instances :
        op[t] # "idle" /\ \E e \in networkIDs[t] : e[2] = n.id}
ProjectNetworks == {n \in networks : n.proj}
ProjectVolumes == {v \in volumes : v.proj}

\* The engine holds nothing that carries the project label.
NothingLeft == ProjectContainers = {} /\ ProjectNetworks = {} /\ ProjectVolumes = {}

RECURSIVE NewestFirst(_)
\* The engine lists containers and networks newest first.
NewestFirst(S) ==
    IF S = {} THEN <<>>
    ELSE LET m == CHOOSE x \in S : \A y \in S : y.id <= x.id
         IN <<m>> \o NewestFirst(S \ {m})

RECURSIVE AnyOrder(_)
AnyOrder(S) ==
    IF S = {} THEN <<>>
    ELSE LET m == CHOOSE x \in S : TRUE IN <<m>> \o AnyOrder(S \ {m})

\* An engine call given a cancelled context fails; one given a live context
\* may fail for a reason of the engine's own.
\* `possible` is FALSE when the engine has to refuse the call (no such object,
\* name already in use).
\* An object that refused a call may refuse the calls that follow on it (the
\* kill after the stop, the retries of a removal) without counting again.
SameObject(t) == pc[t] = "sc_kill" \/ attempt[t] > 0

Outcomes(t, possible) ==
    IF ctx[t] = "cancelled" \/ ~possible THEN {FALSE}
    ELSE IF faults < MaxFaults \/ SameObject(t) THEN {TRUE, FALSE} ELSE {TRUE}

Fault(t, ok, possible) ==
    faults' = IF ~ok /\ ctx[t] = "live" /\ possible /\ ~SameObject(t)
              THEN faults + 1 ELSE faults

Ev(call, arg, ok) == [call |-> call, arg |-> arg, ok |-> ok]
\* The ContainerStart of startService: of the container found (existing = TRUE)
\* or of the container just created.
EvStart(id, ok, svc, existing) ==
    [call |-> "ContainerStart", arg |-> id, ok |-> ok, svc |-> svc, existing |-> existing]
Log(t, e) == trace' = [trace EXCEPT ![t] = Append(@, e)]

SetState(id, st) ==
    containers' = {IF c.id = id THEN [c EXCEPT !.state = st] ELSE c : c \in containers}

\* The ids of the running containers.
Running == {c.id : c \in {x \in containers : x.state = "running"}}

\* s.projectName
ProjectName == "p1"

\* The compose file declares neither label.
NoUserLabels == [project |-> "", role |-> ""]

\* (mutant) Labels in which a value declared by the user stays.
Labels_UserWins(user, name) ==
    [project |-> IF user.project # "" THEN user.project ELSE ProjectName,
     role |-> IF user.role # "" THEN user.role ELSE name]

\* The labels of a resource Start creates: the labels of the compose file,
\* then the project label and the role label assigned over them.
Labels(user, name) == [user EXCEPT !.project = ProjectName, !.role = name]

\* The label filter com.docker.compose.project=<s.projectName> selects it.
Owned(labels) == labels.project = ProjectName

\* ------------------------------------------------------------------ Init
ForeignContainers ==
    {[id |-> 1, name |-> LongerName("db"), proj |-> FALSE, svc |-> "none", state |-> st] :
        st \in {"running", "exited"}}
    \cup {[id |-> 1, name |-> containerName("db"), proj |-> FALSE, svc |-> "none",
           state |-> "exited"]}
ForeignNetworks ==
    {[id |-> 1, name |-> ScopedName(n), proj |-> FALSE, role |-> "none"] : n \in Networks}
ForeignVolumes ==
    {[name |-> ScopedName(v), proj |-> FALSE, role |-> "none"] : v \in Volumes}

\* The depends_on graphs of the project: every graph in which no service
\* names itself.
\* No run of the planner is being followed step by step.
NoPlan == [pc |-> "idle", visit |-> {}, added |-> {}, result |-> <<>>,
           progress |-> FALSE, runs |-> <<>>]

DependsOnGraphs == {g \in [Services -> SUBSET Services] : \A s \in Services : s \notin g[s]}

\* No call has been made yet: every instance is idle, its locals are empty.
NoCall ==
    /\ op = [t \in Instances |-> "idle"]
    /\ pc = [t \in Instances |-> "idle"]
    /\ ctx = [t \in Instances |-> "live"]
    /\ rollback = [t \in Instances |-> FALSE]
    /\ startErr = [t \in Instances |-> Nil]
    /\ lastErr = [t \in Instances |-> Nil]
    /\ phaseErr = [t \in Instances |-> <<>>]
    /\ attempt = [t \in Instances |-> 0]
    /\ todoNets = [t \in Instances |-> {}]
    /\ todoVols = [t \in Instances |-> {}]
    /\ ordered = [t \in Instances |-> <<>>]
    /\ listed = [t \in Instances |-> <<>>]
    /\ cur = [t \in Instances |-> Nil]
    /\ ret = [t \in Instances |-> Nil]
    /\ trace = [t \in Instances |-> <<>>]
    /\ calls = 0
    /\ faults = 0
    /\ lastStart = [valid |-> FALSE, running |-> {}]
    /\ lastStop = FALSE
    /\ timeout = [t \in Instances |-> 0]
    /\ elapsed = [t \in Instances |-> 0]
    /\ status = [t \in Instances |-> <<>>]
    /\ plan = NoPlan

Fresh ==
    /\ networkIDs = [t \in Instances |-> {}]
    /\ volumeNames = [t \in Instances |-> <<>>]
    /\ NoCall

Init ==
    /\ userLabels = NoUserLabels
    /\ services = Services
    /\ dependsOn \in DependsOnGraphs
    /\ containers \in {{}} \cup {{c} : c \in ForeignContainers}
    /\ networks \in {{}} \cup {{n} : n \in {x \in ForeignNetworks : containers = {}}}
    /\ volumes \in {{}} \cup {{v} : v \in {x \in ForeignVolumes :
                                                containers = {} /\ networks = {}}}
    /\ healthOf = <<>>
    /\ images = {}
    /\ nextId = 2
    /\ Fresh

\* ------------------------------------------------------------------ Stop
\* (mutant) A Stop that removes the networks before the containers.
StopPhaseOrder_NetworksFirst == <<"rn_list", "sc_list", "rv_list">>

\* (mutant) A Stop that removes the containers only.
StopPhaseOrder_ContainersOnly == <<"sc_list">>

\* (mutant) A Stop that forgets its volume phase.
StopPhaseOrder_NoVolumes == <<"sc_list", "rn_list">>

\* Stop runs its three phases in this order (pc of each phase's first step).
StopPhaseOrder == <<"sc_list", "rn_list", "rv_list">>

PhaseIndex(first) == CHOOSE i \in 1..Len(StopPhaseOrder) : StopPhaseOrder[i] = first

\* (mutant) A Stop that gives up at the first phase that reports an error.
StopNext_Abort(first, err) ==
    IF err # Nil THEN "stop_ret"
    ELSE IF PhaseIndex(first) < Len(StopPhaseOrder)
    THEN StopPhaseOrder[PhaseIndex(first) + 1]
    ELSE "stop_ret"

\* Stop after the phase that began at `first` returned err: the error is
\* printed as a warning and the next phase runs.
StopNext(first, err) ==
    IF PhaseIndex(first) < Len(StopPhaseOrder)
    THEN StopPhaseOrder[PhaseIndex(first) + 1]
    ELSE "stop_ret"

\* (mutant) A Stop that reports an error when it found nothing to remove.
StopResult_NothingToRemove(t) ==
    IF \E i \in 1..Len(trace[t]) :
          trace[t][i].call \in {"ContainerRemove", "NetworkRemove", "VolumeRemove"}
    THEN Nil
    ELSE "no resources"

\* What Stop returns, whatever its phases returned.
StopResult(t) == Nil

\* (mutant) A Start whose rollback error replaces the error of the failed step.
StartResult_RollbackWins(t) ==
    IF \E i \in 1..Len(phaseErr[t]) : phaseErr[t][i] # Nil
    THEN "rollback incomplete"
    ELSE startErr[t]

\* What Start returns when a step failed: the wrapped error of that step.
StartResult(t) == startErr[t]

\* A Stop phase returns err to Stop.
PhaseReturn(t, first, err) ==
    /\ phaseErr' = [phaseErr EXCEPT ![t] = Append(@, err)]
    /\ pc' = [pc EXCEPT ![t] = StopNext(first, err)]
    /\ lastErr' = [lastErr EXCEPT ![t] = Nil]
    /\ listed' = [listed EXCEPT ![t] = <<>>]
    /\ attempt' = [attempt EXCEPT ![t] = 0]

Present(S, id) == \E x \in S : x.id = id

\* stopContainers: ContainerList by project label.
stopContainersList(t) ==
    /\ pc[t] = "sc_list"
    /\ \E ok \in Outcomes(t, TRUE) :
        /\ Fault(t, ok, TRUE)
        /\ Log(t, Ev("ContainerList", "label", ok))
        /\ IF ok
           THEN /\ listed' = [listed EXCEPT ![t] = NewestFirst(ProjectContainers)]
                /\ lastErr' = [lastErr EXCEPT ![t] = Nil]
                /\ pc' = [pc EXCEPT ![t] = "sc_loop"]
                /\ UNCHANGED <<phaseErr, attempt>>
           ELSE PhaseReturn(t, "sc_list", "list containers")
    /\ UNCHANGED <<engine, dependsOn, memory, op, ctx, rollback, startLocals, ret,
                   calls, lastStart, more>>

\* stopContainers: head of the loop over the listed containers.
stopContainersLoop(t) ==
    /\ pc[t] = "sc_loop"
    /\ IF listed[t] = <<>>
       THEN PhaseReturn(t, "sc_list", lastErr[t])
       ELSE IF ctx[t] = "cancelled"
       THEN PhaseReturn(t, "sc_list", "context cancelled during container cleanup")
       ELSE /\ pc' = [pc EXCEPT ![t] =
                        IF Head(listed[t]).state = "running" THEN "sc_stop" ELSE "sc_settle"]
            /\ UNCHANGED stopLocals
    /\ UNCHANGED <<engine, dependsOn, memory, op, ctx, rollback, startLocals, ret,
                   trace, calls, faults, lastStart, more>>

\* stopContainers step 1: graceful ContainerStop of a container listed as running.
stopContainersStop(t) ==
    /\ pc[t] = "sc_stop"
    /\ LET c == Head(listed[t]) IN
       \E ok \in Outcomes(t, Present(containers, c.id)) :
        /\ Fault(t, ok, Present(containers, c.id))
        /\ Log(t, Ev("ContainerStop", c.id, ok))
        /\ IF ok
           THEN /\ SetState(c.id, "exited")
                /\ pc' = [pc EXCEPT ![t] = "sc_settle"]
           ELSE /\ UNCHANGED containers
                /\ pc' = [pc EXCEPT ![t] = "sc_kill"]
    /\ UNCHANGED <<networks, volumes, images, nextId, dependsOn, memory, op, ctx,
                   rollback, startLocals, stopLocals, ret, calls, lastStart, more>>

\* stopContainers step 1, graceful stop failed: ContainerKill; its error is only printed.
stopContainersKill(t) ==
    /\ pc[t] = "sc_kill"
    /\ LET c == Head(listed[t]) IN
       \E ok \in Outcomes(t, Present(containers, c.id)) :
        /\ Fault(t, ok, Present(containers, c.id))
        /\ Log(t, Ev("ContainerKill", c.id, ok))
        /\ IF ok THEN SetState(c.id, "exited") ELSE UNCHANGED containers
        /\ pc' = [pc EXCEPT ![t] = "sc_settle"]
    /\ UNCHANGED <<networks, volumes, images, nextId, dependsOn, memory, op, ctx,
                   rollback, startLocals, stopLocals, ret, calls, lastStart, more>>

\* stopContainers step 2: select on ctx.Done() and the 200 ms timer.
stopContainersSettle(t) ==
    /\ pc[t] = "sc_settle"
    /\ IF ctx[t] = "cancelled"
       THEN PhaseReturn(t, "sc_list", "context cancelled during container cleanup")
       ELSE /\ attempt' = [attempt EXCEPT ![t] = 0]
            /\ pc' = [pc EXCEPT ![t] = "sc_remove"]
            /\ UNCHANGED <<lastErr, phaseErr, listed>>
    /\ UNCHANGED <<engine, dependsOn, memory, op, ctx, rollback, startLocals, ret,
                   trace, calls, faults, lastStart, more>>

\* stopContainers step 3: one attempt of ContainerRemove(force, volumes).
stopContainersRemove(t) ==
    /\ pc[t] = "sc_remove"
    /\ attempt[t] < RemoveAttempts
    /\ IF ctx[t] = "cancelled"
       THEN /\ PhaseReturn(t, "sc_list", "context cancelled during container removal")
            /\ UNCHANGED <<containers, trace, faults>>
       ELSE LET c == Head(listed[t]) IN
            \E ok \in Outcomes(t, Present(containers, c.id)) :
             /\ Fault(t, ok, Present(containers, c.id))
             /\ Log(t, Ev("ContainerRemove", c.id, ok))
             /\ IF ok
                THEN /\ containers' = {x \in containers : x.id # c.id}
                     /\ listed' = [listed EXCEPT ![t] = Tail(@)]
                     /\ attempt' = [attempt EXCEPT ![t] = 0]
                     /\ pc' = [pc EXCEPT ![t] = "sc_loop"]
                     /\ UNCHANGED lastErr
                ELSE IF attempt[t] < RemoveAttempts - 1
                THEN /\ pc' = [pc EXCEPT ![t] = "sc_backoff"]
                     /\ UNCHANGED <<containers, listed, lastErr, attempt>>
                ELSE /\ lastErr' = [lastErr EXCEPT ![t] = "remove container"]
                     /\ listed' = [listed EXCEPT ![t] = Tail(@)]
                     /\ attempt' = [attempt EXCEPT ![t] = 0]
                     /\ pc' = [pc EXCEPT ![t] = "sc_loop"]
                     /\ UNCHANGED containers
             /\ UNCHANGED phaseErr
    /\ UNCHANGED <<networks, volumes, images, nextId, dependsOn, memory, op, ctx,
                   rollback, startLocals, ret, calls, lastStart, more>>

\* stopContainers step 3: select on ctx.Done() and the 500 ms timer, then retry.
stopContainersBackoff(t) ==
    /\ pc[t] = "sc_backoff"
    /\ IF ctx[t] = "cancelled"
       THEN PhaseReturn(t, "sc_list", "context cancelled during container removal")
       ELSE /\ attempt' = [attempt EXCEPT ![t] = @ + 1]
            /\ pc' = [pc EXCEPT ![t] = "sc_remove"]
            /\ UNCHANGED <<lastErr, phaseErr, listed>>
    /\ UNCHANGED <<engine, dependsOn, memory, op, ctx, rollback, startLocals, ret,
                   trace, calls, faults, lastStart, more>>

\* removeNetworks: NetworkList by project label.
removeNetworksList(t) ==
    /\ pc[t] = "rn_list"
    /\ \E ok \in Outcomes(t, TRUE) :
        /\ Fault(t, ok, TRUE)
        /\ Log(t, Ev("NetworkList", "label", ok))
        /\ IF ok
           THEN /\ listed' = [listed EXCEPT ![t] = NewestFirst(ProjectNetworks)]
                /\ lastErr' = [lastErr EXCEPT ![t] = Nil]
                /\ pc' = [pc EXCEPT ![t] = "rn_loop"]
                /\ UNCHANGED <<phaseErr, attempt>>
           ELSE PhaseReturn(t, "rn_list", "list networks")
    /\ UNCHANGED <<engine, dependsOn, memory, op, ctx, rollback, startLocals, ret,
                   calls, lastStart, more>>

\* removeNetworks: head of the loop over the listed networks.
removeNetworksLoop(t) ==
    /\ pc[t] = "rn_loop"
    /\ IF listed[t] = <<>>
       THEN PhaseReturn(t, "rn_list", lastErr[t])
       ELSE IF ctx[t] = "cancelled"
       THEN PhaseReturn(t, "rn_list", "context cancelled during network cleanup")
       ELSE /\ attempt' = [attempt EXCEPT ![t] = 0]
            /\ pc' = [pc EXCEPT ![t] = "rn_remove"]
            /\ UNCHANGED <<lastErr, phaseErr, listed>>
    /\ UNCHANGED <<engine, dependsOn, memory, op, ctx, rollback, startLocals, ret,
                   trace, calls, faults, lastStart, more>>

\* removeNetworks: one attempt of NetworkRemove; a removed network also leaves
\* s.networkIDs.
removeNetworksRemove(t) ==
    /\ pc[t] = "rn_remove"
    /\ attempt[t] < RemoveAttempts
    /\ IF ctx[t] = "cancelled"
       THEN /\ PhaseReturn(t, "rn_list", "context cancelled during network removal")
            /\ UNCHANGED <<networks, networkIDs, trace, faults>>
       ELSE LET n == Head(listed[t]) IN
            \E ok \in Outcomes(t, Present(networks, n.id)) :
             /\ Fault(t, ok, Present(networks, n.id))
             /\ Log(t, Ev("NetworkRemove", n.id, ok))
             /\ IF ok
                THEN /\ networks' = {x \in networks : x.id # n.id}
                     /\ networkIDs' = [networkIDs EXCEPT ![t] = {e \in @ : e[2] # n.id}]
                     /\ listed' = [listed EXCEPT ![t] = Tail(@)]
                     /\ attempt' = [attempt EXCEPT ![t] = 0]
                     /\ pc' = [pc EXCEPT ![t] = "rn_loop"]
                     /\ UNCHANGED lastErr
                ELSE IF attempt[t] < RemoveAttempts - 1
                THEN /\ pc' = [pc EXCEPT ![t] = "rn_backoff"]
                     /\ UNCHANGED <<networks, networkIDs, listed, lastErr, attempt>>
                ELSE /\ lastErr' = [lastErr EXCEPT ![t] = "remove network"]
                     /\ listed' = [listed EXCEPT ![t] = Tail(@)]
                     /\ attempt' = [attempt EXCEPT ![t] = 0]
                     /\ pc' = [pc EXCEPT ![t] = "rn_loop"]
                     /\ UNCHANGED <<networks, networkIDs>>
             /\ UNCHANGED phaseErr
    /\ UNCHANGED <<containers, volumes, images, nextId, dependsOn, volumeNames, op, ctx,
                   rollback, startLocals, ret, calls, lastStart, more>>

\* removeNetworks: select on ctx.Done() and the 500 ms timer, then retry.
removeNetworksBackoff(t) ==
    /\ pc[t] = "rn_backoff"
    /\ IF ctx[t] = "cancelled"
       THEN PhaseReturn(t, "rn_list", "context cancelled during network removal")
       ELSE /\ attempt' = [attempt EXCEPT ![t] = @ + 1]
            /\ pc' = [pc EXCEPT ![t] = "rn_remove"]
            /\ UNCHANGED <<lastErr, phaseErr, listed>>
    /\ UNCHANGED <<engine, dependsOn, memory, op, ctx, rollback, startLocals, ret,
                   trace, calls, faults, lastStart, more>>

\* removeVolumes: VolumeList by project label.
removeVolumesList(t) ==
    /\ pc[t] = "rv_list"
    /\ \E ok \in Outcomes(t, TRUE) :
        /\ Fault(t, ok, TRUE)
        /\ Log(t, Ev("VolumeList", "label", ok))
        /\ IF ok
           THEN /\ listed' = [listed EXCEPT ![t] = AnyOrder(ProjectVolumes)]
                /\ lastErr' = [lastErr EXCEPT ![t] = Nil]
                /\ pc' = [pc EXCEPT ![t] = "rv_loop"]
                /\ UNCHANGED <<phaseErr, attempt>>
           ELSE PhaseReturn(t, "rv_list", "list volumes")
    /\ UNCHANGED <<engine, dependsOn, memory, op, ctx, rollback, startLocals, ret,
                   calls, lastStart, more>>

\* removeVolumes: one VolumeRemove(force) per listed volume, no retry and no look
\* at the context; after the loop s.volumeNames is cleared.
removeVolumesLoop(t) ==
    /\ pc[t] = "rv_loop"
    /\ IF listed[t] = <<>>
       THEN /\ volumeNames' = [volumeNames EXCEPT ![t] = <<>>]
            /\ PhaseReturn(t, "rv_list", lastErr[t])
            /\ UNCHANGED <<volumes, trace, faults>>
       ELSE LET v == Head(listed[t])
                there == \E x \in volumes : x.name = v.name
            IN \E ok \in Outcomes(t, there) :
                /\ Fault(t, ok, there)
                /\ Log(t, Ev("VolumeRemove", v.name, ok))
                /\ volumes' = IF ok THEN {x \in volumes : x.name # v.name} ELSE volumes
                /\ lastErr' = [lastErr EXCEPT ![t] = IF ok THEN @ ELSE "remove volume"]
                /\ listed' = [listed EXCEPT ![t] = Tail(@)]
                /\ UNCHANGED <<volumeNames, phaseErr, attempt, pc>>
    /\ UNCHANGED <<containers, networks, images, nextId, dependsOn, networkIDs, op, ctx,
                   rollback, startLocals, ret, calls, lastStart, more>>

\* Stop returns; when it ran as the cleanup of Start, Start returns startErr.
StopReturn(t) ==
    /\ pc[t] = "stop_ret"
    /\ pc' = [pc EXCEPT ![t] = "ret"]
    /\ ret' = [ret EXCEPT ![t] = IF rollback[t] THEN StartResult(t) ELSE StopResult(t)]
    /\ UNCHANGED <<engine, dependsOn, memory, op, ctx, rollback, startLocals, stopLocals,
                   trace, calls, faults, lastStart, more>>

AllIdle == \A u \in Instances : op[u] = "idle"

\* The instances whose callers serialize their calls (one call at a time).
Serial == {1}

\* Entry of Stop with a live context.
BeginStop(t) ==
    /\ calls < MaxCalls
    /\ calls' = calls + 1
    /\ op' = [op EXCEPT ![t] = "Stop"]
    /\ pc' = [pc EXCEPT ![t] = StopPhaseOrder[1]]
    /\ ctx' = [ctx EXCEPT ![t] = "live"]
    /\ rollback' = [rollback EXCEPT ![t] = FALSE]
    /\ startErr' = [startErr EXCEPT ![t] = Nil]
    /\ phaseErr' = [phaseErr EXCEPT ![t] = <<>>]
    /\ ret' = [ret EXCEPT ![t] = Nil]
    /\ trace' = [trace EXCEPT ![t] = <<>>]
    /\ lastStart' = [valid |-> FALSE, running |-> {}]
    /\ UNCHANGED <<engine, dependsOn, memory, lastErr, attempt, todoNets, todoVols,
                   ordered, listed, cur, faults, more>>

\* A caller invokes Stop, no other call running.
CallStop(t) ==
    /\ t \in Serial
    /\ AllIdle
    /\ BeginStop(t)

\* The context of the running call is cancelled (the caller's token, or the
\* 30 s deadline of the cleanup context).
Cancel(t) ==
    /\ op[t] # "idle"
    /\ pc[t] # "ret"
    /\ ctx[t] = "live"
    /\ faults < MaxFaults
    /\ faults' = faults + 1
    /\ ctx' = [ctx EXCEPT ![t] = "cancelled"]
    /\ Log(t, Ev("cancel", "ctx", TRUE))
    /\ UNCHANGED <<engine, dependsOn, memory, op, pc, rollback, startLocals, stopLocals,
                   ret, calls, lastStart, more>>

\* The call has returned to its caller; its locals are gone.
Return(t) ==
    /\ pc[t] = "ret"
    /\ op' = [op EXCEPT ![t] = "idle"]
    /\ pc' = [pc EXCEPT ![t] = "idle"]
    /\ ctx' = [ctx EXCEPT ![t] = "live"]
    /\ rollback' = [rollback EXCEPT ![t] = FALSE]
    /\ startErr' = [startErr EXCEPT ![t] = Nil]
    /\ todoNets' = [todoNets EXCEPT ![t] = {}]
    /\ todoVols' = [todoVols EXCEPT ![t] = {}]
    /\ ordered' = [ordered EXCEPT ![t] = <<>>]
    /\ cur' = [cur EXCEPT ![t] = Nil]
    /\ lastErr' = [lastErr EXCEPT ![t] = Nil]
    /\ phaseErr' = [phaseErr EXCEPT ![t] = <<>>]
    /\ attempt' = [attempt EXCEPT ![t] = 0]
    /\ listed' = [listed EXCEPT ![t] = <<>>]
    /\ ret' = [ret EXCEPT ![t] = Nil]
    /\ trace' = [trace EXCEPT ![t] = <<>>]
    /\ lastStart' = IF op[t] = "Start" /\ ret[t] = Nil
                    THEN [valid |-> TRUE, running |-> Running]
                    ELSE [valid |-> FALSE, running |-> {}]
    /\ lastStop' = (op[t] = "Stop" /\ NothingLeft)
    /\ timeout' = [timeout EXCEPT ![t] = 0]
    /\ elapsed' = [elapsed EXCEPT ![t] = 0]
    /\ status' = [status EXCEPT ![t] = <<>>]
    /\ UNCHANGED <<engine, dependsOn, memory, calls, faults, project, healthOf, plan>>

\* ----------------------------------------------------------------- Start
\* (mutant) A planner that does not look at depends_on.
allDepsSatisfied_Ignored(s, added) == TRUE

\* "allDepsSatisfied": every name of svc.DependsOn is in added.
allDepsSatisfied(s, added) == \A dep \in dependsOn[s] : dep \in added

RECURSIVE Pass(_, _, _)
\* One pass of "for name, svc := range services" (a Go map: any order) that adds
\* every service not yet added whose dependencies are all added.
Pass(visit, added, result) ==
    IF visit = {} THEN {<<added, result>>}
    ELSE UNION {
        LET sat == s \notin added /\ allDepsSatisfied(s, added)
        IN Pass(visit \ {s},
                IF sat THEN added \cup {s} ELSE added,
                IF sat THEN Append(result, s) ELSE result) : s \in visit}

RECURSIVE Fallback(_, _, _)
\* "if !progress": every service not yet added is appended, in map order.
Fallback(visit, added, result) ==
    IF visit = {} THEN {result}
    ELSE UNION {
        Fallback(visit \ {s}, added \cup {s},
                 IF s \in added THEN result ELSE Append(result, s)) : s \in visit}

RECURSIVE Sort(_, _)
Sort(added, result) ==
    IF Len(result) >= Cardinality(services) THEN {result}
    ELSE UNION {
        IF o[1] # added THEN Sort(o[1], o[2]) ELSE Fallback(services, added, result) :
            o \in Pass(services, added, result)}

\* The orders sortServicesByDependency can return for the project.
sortServicesByDependency == Sort({}, <<>>)

\* (mutant) A Start that starts the services before it creates the networks
\* and volumes.
StartPhaseOrder_ServicesFirst == <<"st_sort", "st_net", "st_vol">>

\* Start runs its three loops in this order (pc of each loop's first step);
\* after the last it returns nil.
StartPhaseOrder == <<"st_net", "st_vol", "st_sort">>

StartNext(first) ==
    LET i == CHOOSE k \in 1..Len(StartPhaseOrder) : StartPhaseOrder[k] = first
    IN IF i < Len(StartPhaseOrder) THEN StartPhaseOrder[i + 1] ELSE "start_ret"

\* A step of Start failed: startErr is set and Start returns through its
\* deferred cleanup.
StartFail(t, err) ==
    /\ startErr' = [startErr EXCEPT ![t] = err]
    /\ pc' = [pc EXCEPT ![t] = "cleanup"]

SetNetworkID(t, n, id) ==
    networkIDs' = [networkIDs EXCEPT ![t] = {e \in @ : e[1] # n} \cup {<<n, id>>}]

\* Entry of Start with a live context.
BeginStart(t) ==
    /\ calls < MaxCalls
    /\ calls' = calls + 1
    /\ op' = [op EXCEPT ![t] = "Start"]
    /\ pc' = [pc EXCEPT ![t] = StartPhaseOrder[1]]
    /\ ctx' = [ctx EXCEPT ![t] = "live"]
    /\ rollback' = [rollback EXCEPT ![t] = FALSE]
    /\ startErr' = [startErr EXCEPT ![t] = Nil]
    /\ todoNets' = [todoNets EXCEPT ![t] = Networks]
    /\ todoVols' = [todoVols EXCEPT ![t] = Volumes]
    /\ ordered' = [ordered EXCEPT ![t] = <<>>]
    /\ cur' = [cur EXCEPT ![t] = Nil]
    /\ phaseErr' = [phaseErr EXCEPT ![t] = <<>>]
    /\ ret' = [ret EXCEPT ![t] = Nil]
    /\ trace' = [trace EXCEPT ![t] = <<>>]
    /\ UNCHANGED <<engine, dependsOn, memory, lastErr, attempt, listed, faults, lastStart, more>>

\* A caller invokes Start, no other call running.
CallStart(t) ==
    /\ t \in Serial
    /\ AllIdle
    /\ BeginStart(t)

\* Start 1: NetworkList by name for one declared network; a listed network
\* counts only when its name equals the scoped name.
startNetworkList(t) ==
    /\ pc[t] = "st_net"
    /\ \E n \in todoNets[t] : \E ok \in Outcomes(t, TRUE) :
        /\ Fault(t, ok, TRUE)
        /\ Log(t, Ev("NetworkList", ScopedName(n), ok))
        /\ IF ~ok
           THEN /\ StartFail(t, "list networks")
                /\ UNCHANGED <<networkIDs, todoNets, cur>>
           ELSE LET existingNetworks ==
                        NewestFirst({x \in networks : NameFilter(x.name, ScopedName(n))})
                    exact == SelectSeq(existingNetworks, LAMBDA x : x.name = ScopedName(n))
                IN IF exact # <<>>
                   THEN /\ SetNetworkID(t, n, Head(exact).id)
                        /\ todoNets' = [todoNets EXCEPT ![t] = @ \ {n}]
                        /\ UNCHANGED <<startErr, pc, cur>>
                   ELSE /\ cur' = [cur EXCEPT ![t] = n]
                        /\ pc' = [pc EXCEPT ![t] = "st_net_create"]
                        /\ UNCHANGED <<startErr, networkIDs, todoNets>>
    /\ UNCHANGED <<engine, dependsOn, volumeNames, op, ctx, rollback, todoVols, ordered,
                   stopLocals, ret, calls, lastStart, more>>

\* Start 1: NetworkCreate with the project and network labels.
startNetworkCreate(t) ==
    /\ pc[t] = "st_net_create"
    /\ LET n == cur[t]
           free == ~\E x \in networks : x.name = ScopedName(n)
       IN \E ok \in Outcomes(t, free) :
        /\ Fault(t, ok, free)
        /\ Log(t, Ev("NetworkCreate", ScopedName(n), ok))
        /\ IF ~ok
           THEN /\ StartFail(t, "create network")
                /\ UNCHANGED <<networks, nextId, networkIDs, todoNets>>
           ELSE /\ networks' = networks \cup
                        {[id |-> nextId, name |-> ScopedName(n),
                          proj |-> Owned(Labels(userLabels, n)),
                          role |-> Labels(userLabels, n).role]}
                /\ nextId' = nextId + 1
                /\ SetNetworkID(t, n, nextId)
                /\ todoNets' = [todoNets EXCEPT ![t] = @ \ {n}]
                /\ pc' = [pc EXCEPT ![t] = "st_net"]
                /\ UNCHANGED startErr
    /\ UNCHANGED <<containers, volumes, images, dependsOn, volumeNames, op, ctx, rollback,
                   todoVols, ordered, cur, stopLocals, ret, calls, lastStart, more>>

\* Start: the loop over the declared networks is over.
startNetworksDone(t) ==
    /\ pc[t] = "st_net"
    /\ todoNets[t] = {}
    /\ pc' = [pc EXCEPT ![t] = StartNext("st_net")]
    /\ UNCHANGED <<engine, dependsOn, memory, op, ctx, rollback, startLocals, stopLocals,
                   ret, trace, calls, faults, lastStart, more>>

\* Start 2: VolumeList by name for one declared volume.
startVolumeList(t) ==
    /\ pc[t] = "st_vol"
    /\ \E v \in todoVols[t] : \E ok \in Outcomes(t, TRUE) :
        /\ Fault(t, ok, TRUE)
        /\ Log(t, Ev("VolumeList", ScopedName(v), ok))
        /\ IF ~ok
           THEN /\ StartFail(t, "list volumes")
                /\ UNCHANGED <<volumeNames, todoVols, cur>>
           ELSE IF \E x \in volumes : NameFilter(x.name, ScopedName(v))
                                        /\ x.name = ScopedName(v)
                THEN /\ volumeNames' = [volumeNames EXCEPT ![t] = Append(@, ScopedName(v))]
                     /\ todoVols' = [todoVols EXCEPT ![t] = @ \ {v}]
                     /\ UNCHANGED <<startErr, pc, cur>>
                ELSE /\ cur' = [cur EXCEPT ![t] = v]
                     /\ pc' = [pc EXCEPT ![t] = "st_vol_create"]
                     /\ UNCHANGED <<startErr, volumeNames, todoVols>>
    /\ UNCHANGED <<engine, dependsOn, networkIDs, op, ctx, rollback, todoNets, ordered,
                   stopLocals, ret, calls, lastStart, more>>

\* Start 2: VolumeCreate with the project and volume labels (the engine returns
\* the volume of that name when there is one already).
startVolumeCreate(t) ==
    /\ pc[t] = "st_vol_create"
    /\ LET v == cur[t] IN
       \E ok \in Outcomes(t, TRUE) :
        /\ Fault(t, ok, TRUE)
        /\ Log(t, Ev("VolumeCreate", ScopedName(v), ok))
        /\ IF ~ok
           THEN /\ StartFail(t, "create volume")
                /\ UNCHANGED <<volumes, volumeNames, todoVols>>
           ELSE /\ volumes' = IF \E x \in volumes : x.name = ScopedName(v)
                              THEN volumes
                              ELSE volumes \cup
                                   {[name |-> ScopedName(v),
                                     proj |-> Owned(Labels(userLabels, v)),
                                     role |-> Labels(userLabels, v).role]}
                /\ volumeNames' = [volumeNames EXCEPT ![t] = Append(@, ScopedName(v))]
                /\ todoVols' = [todoVols EXCEPT ![t] = @ \ {v}]
                /\ pc' = [pc EXCEPT ![t] = "st_vol"]
                /\ UNCHANGED startErr
    /\ UNCHANGED <<containers, networks, images, nextId, dependsOn, networkIDs, op, ctx,
                   rollback, todoNets, ordered, cur, stopLocals, ret, calls, lastStart, more>>

\* Start: the loop over the declared volumes is over.
startVolumesDone(t) ==
    /\ pc[t] = "st_vol"
    /\ todoVols[t] = {}
    /\ pc' = [pc EXCEPT ![t] = StartNext("st_vol")]
    /\ UNCHANGED <<engine, dependsOn, memory, op, ctx, rollback, startLocals, stopLocals,
                   ret, trace, calls, faults, lastStart, more>>

\* Start 3: orderedServices := s.sortServicesByDependency().
startSort(t) ==
    /\ pc[t] = "st_sort"
    /\ \E o \in sortServicesByDependency : ordered' = [ordered EXCEPT ![t] = o]
    /\ pc' = [pc EXCEPT ![t] = "ss_list"]
    /\ UNCHANGED <<engine, dependsOn, memory, op, ctx, rollback, startErr, todoNets,
                   todoVols, cur, stopLocals, ret, trace, calls, faults, lastStart, more>>

\* Start: the loop over orderedServices is over.
startServicesDone(t) ==
    /\ pc[t] = "ss_list"
    /\ ordered[t] = <<>>
    /\ pc' = [pc EXCEPT ![t] = StartNext("st_sort")]
    /\ UNCHANGED <<engine, dependsOn, memory, op, ctx, rollback, startLocals, stopLocals,
                   ret, trace, calls, faults, lastStart, more>>

\* Start returns nil: the deferred cleanup finds startErr nil and does nothing.
StartReturnNil(t) ==
    /\ pc[t] = "start_ret"
    /\ pc' = [pc EXCEPT ![t] = "ret"]
    /\ ret' = [ret EXCEPT ![t] = Nil]
    /\ UNCHANGED <<engine, dependsOn, memory, op, ctx, rollback, startLocals, stopLocals,
                   trace, calls, faults, lastStart, more>>

\* (mutant) A startService that takes every existing container as running.
NeedsStart_Never(c) == FALSE

\* "Start if stopped": the listed container's State is not "running".
NeedsStart(c) == c.state # "running"

\* startService: ContainerList(all) with the name filter; with a match the first
\* listed container is taken as the service's container.
startServiceList(t) ==
    /\ pc[t] = "ss_list"
    /\ ordered[t] # <<>>
    /\ LET svc == Head(ordered[t]) IN
       \E ok \in Outcomes(t, TRUE) :
        /\ Fault(t, ok, TRUE)
        /\ Log(t, Ev("ContainerList", svc, ok))
        /\ IF ~ok
           THEN /\ StartFail(t, "start service: list containers")
                /\ UNCHANGED <<ordered, cur>>
           ELSE LET found == NewestFirst({c \in containers :
                                            NameFilter(c.name, containerName(svc))})
                IN IF found # <<>>
                   THEN IF NeedsStart(Head(found))
                        THEN /\ cur' = [cur EXCEPT ![t] = Head(found).id]
                             /\ pc' = [pc EXCEPT ![t] = "ss_start_existing"]
                             /\ UNCHANGED <<startErr, ordered>>
                        ELSE /\ ordered' = [ordered EXCEPT ![t] = Tail(@)]
                             /\ UNCHANGED <<startErr, pc, cur>>
                   ELSE /\ pc' = [pc EXCEPT ![t] = "ss_image"]
                        /\ UNCHANGED <<startErr, ordered, cur>>
    /\ UNCHANGED <<engine, dependsOn, memory, op, ctx, rollback, todoNets, todoVols,
                   stopLocals, ret, calls, lastStart, more>>

\* startService: ContainerStart of the existing container that is not running.
startServiceStartExisting(t) ==
    /\ pc[t] = "ss_start_existing"
    /\ LET svc == Head(ordered[t]) IN
       \E ok \in Outcomes(t, Present(containers, cur[t])) :
        /\ Fault(t, ok, Present(containers, cur[t]))
        /\ Log(t, EvStart(cur[t], ok, svc, TRUE))
        /\ IF ~ok
           THEN /\ StartFail(t, "start service: start existing container")
                /\ UNCHANGED <<containers, ordered>>
           ELSE /\ SetState(cur[t], "running")
                /\ ordered' = [ordered EXCEPT ![t] = Tail(@)]
                /\ pc' = [pc EXCEPT ![t] = "ss_list"]
                /\ UNCHANGED startErr
    /\ UNCHANGED <<networks, volumes, images, nextId, dependsOn, memory, op, ctx, rollback,
                   todoNets, todoVols, cur, stopLocals, ret, calls, lastStart, more>>

\* startService: ImageInspectWithRaw; on any error the image is pulled.
startServiceImage(t) ==
    /\ pc[t] = "ss_image"
    /\ LET svc == Head(ordered[t])
           ok == ctx[t] = "live" /\ svc \in images
       IN /\ Log(t, Ev("ImageInspect", svc, ok))
          /\ pc' = [pc EXCEPT ![t] = IF ok THEN "ss_create" ELSE "ss_pull"]
    /\ UNCHANGED <<engine, dependsOn, memory, op, ctx, rollback, startLocals, stopLocals,
                   ret, calls, faults, lastStart, more>>

\* startService: ImagePull, its output drained.
startServicePull(t) ==
    /\ pc[t] = "ss_pull"
    /\ LET svc == Head(ordered[t]) IN
       \E ok \in Outcomes(t, TRUE) :
        /\ Fault(t, ok, TRUE)
        /\ Log(t, Ev("ImagePull", svc, ok))
        /\ IF ~ok
           THEN /\ StartFail(t, "start service: pull image")
                /\ UNCHANGED images
           ELSE /\ images' = images \cup {svc}
                /\ pc' = [pc EXCEPT ![t] = "ss_create"]
                /\ UNCHANGED startErr
    /\ UNCHANGED <<containers, networks, volumes, nextId, dependsOn, memory, op, ctx,
                   rollback, todoNets, todoVols, ordered, cur, stopLocals, ret, calls,
                   lastStart, more>>

\* The engine creates a container only under a free name and on networks it has.
CanCreate(svc) ==
    /\ ~\E c \in containers : c.name = containerName(svc)
    /\ \A n \in svcNetworks[svc] : \E x \in networks : x.name = ScopedName(n)

\* startService: ContainerCreate with the project and service labels.
startServiceCreate(t) ==
    /\ pc[t] = "ss_create"
    /\ LET svc == Head(ordered[t]) IN
       \E ok \in Outcomes(t, CanCreate(svc)) :
        /\ Fault(t, ok, CanCreate(svc))
        /\ Log(t, Ev("ContainerCreate", svc, ok))
        /\ IF ~ok
           THEN /\ StartFail(t, "start service: create container")
                /\ UNCHANGED <<containers, nextId, cur>>
           ELSE /\ containers' = containers \cup
                        {[id |-> nextId, name |-> containerName(svc),
                          proj |-> Owned(Labels(userLabels, svc)),
                          svc |-> Labels(userLabels, svc).role, state |-> "created"]}
                /\ nextId' = nextId + 1
                /\ cur' = [cur EXCEPT ![t] = nextId]
                /\ pc' = [pc EXCEPT ![t] = "ss_start"]
                /\ UNCHANGED startErr
    /\ UNCHANGED <<networks, volumes, images, dependsOn, memory, op, ctx, rollback,
                   todoNets, todoVols, ordered, stopLocals, ret, calls, lastStart, more>>

\* startService: ContainerStart of the container just created.
startServiceStart(t) ==
    /\ pc[t] = "ss_start"
    /\ LET svc == Head(ordered[t]) IN
       \E ok \in Outcomes(t, Present(containers, cur[t])) :
        /\ Fault(t, ok, Present(containers, cur[t]))
        /\ Log(t, EvStart(cur[t], ok, svc, FALSE))
        /\ IF ~ok
           THEN /\ StartFail(t, "start service: start container")
                /\ UNCHANGED <<containers, ordered>>
           ELSE /\ SetState(cur[t], "running")
                /\ ordered' = [ordered EXCEPT ![t] = Tail(@)]
                /\ pc' = [pc EXCEPT ![t] = "ss_list"]
                /\ UNCHANGED startErr
    /\ UNCHANGED <<networks, volumes, images, nextId, dependsOn, memory, op, ctx, rollback,
                   todoNets, todoVols, cur, stopLocals, ret, calls, lastStart, more>>

\* (mutant) A cleanup context derived from the context of the caller.
CleanupCtx_Parent(t) == ctx[t]

\* cleanupCtx: context.WithTimeout(context.Background(), 30s), live when made
\* whatever the state of the caller's context.
CleanupCtx(t) == "live"

\* The deferred cleanup of a failed Start: Stop under a fresh context with a
\* 30 s deadline; its result is dropped.
StartCleanup(t) ==
    /\ pc[t] = "cleanup"
    /\ startErr[t] # Nil
    /\ rollback' = [rollback EXCEPT ![t] = TRUE]
    /\ ctx' = [ctx EXCEPT ![t] = CleanupCtx(t)]
    /\ pc' = [pc EXCEPT ![t] = StopPhaseOrder[1]]
    /\ phaseErr' = [phaseErr EXCEPT ![t] = <<>>]
    /\ Log(t, Ev("cleanup", "Stop", TRUE))
    /\ UNCHANGED <<engine, dependsOn, memory, op, startLocals, lastErr, attempt, listed,
                   ret, calls, faults, lastStart, more>>

\* -------------------------------------------------------- WaitForHealthy
\* (mutant) An acceptance rule that lets a service in health "starting" pass.
Acceptable_Starting(info) ==
    info.State = "running" /\ info.Health \in {"none", "healthy", "starting"}

\* The test of the loop over status.Services: the container is running, and if
\* it has a healthcheck it is healthy.
Acceptable(info) ==
    /\ info.State = "running"
    /\ ~(info.Health # "none" /\ info.Health # "healthy")

\* status.Services[k] = v
Put(f, k, v) == [x \in DOMAIN f \cup {k} |-> IF x = k THEN v ELSE f[x]]

\* inspect.State.Health.Status; inspect.State.Health is nil for a container
\* without a healthcheck.
HasHealthcheck(id) == id \in DOMAIN healthOf

\* What the calls of WaitForHealthy leave alone.
waitFrame == <<engine, dependsOn, memory, op, ctx, rollback, startLocals, lastErr,
               phaseErr, attempt, calls, lastStart, lastStop, project, healthOf, plan,
               timeout>>

WaitReturn(t, err) ==
    /\ ret' = [ret EXCEPT ![t] = err]
    /\ pc' = [pc EXCEPT ![t] = "ret"]

\* A caller invokes WaitForHealthy with a live context and a timeout of d poll
\* intervals, no other call running; deadline := time.Now().Add(timeout).
CallWaitForHealthy(t) ==
    /\ t \in Serial
    /\ AllIdle
    /\ calls < MaxCalls
    /\ calls' = calls + 1
    /\ \E d \in 0..MaxTimeout : timeout' = [timeout EXCEPT ![t] = d]
    /\ elapsed' = [elapsed EXCEPT ![t] = 0]
    /\ status' = [status EXCEPT ![t] = <<>>]
    /\ op' = [op EXCEPT ![t] = "WaitForHealthy"]
    /\ pc' = [pc EXCEPT ![t] = "wh_head"]
    /\ ctx' = [ctx EXCEPT ![t] = "live"]
    /\ ret' = [ret EXCEPT ![t] = Nil]
    /\ trace' = [trace EXCEPT ![t] = <<>>]
    /\ UNCHANGED <<engine, dependsOn, memory, rollback, startLocals, stopLocals, faults,
                   lastStart, lastStop, project, healthOf, plan>>

\* "for time.Now().Before(deadline)", then the check of ctx.Err().
WaitHead(t) ==
    /\ pc[t] = "wh_head"
    /\ IF ~(elapsed[t] < timeout[t])
       THEN WaitReturn(t, "timeout waiting for services to be healthy")
       ELSE IF ctx[t] = "cancelled"
       THEN WaitReturn(t, "context cancelled while waiting for services")
       ELSE /\ pc' = [pc EXCEPT ![t] = "status_list"]
            /\ UNCHANGED ret
    /\ UNCHANGED <<waitFrame, listed, trace, faults, elapsed, status>>

\* Status: ContainerList(all) by project label; on an error WaitForHealthy
\* returns it.
StatusList(t) ==
    /\ pc[t] = "status_list"
    /\ \E ok \in Outcomes(t, TRUE) :
        /\ Fault(t, ok, TRUE)
        /\ Log(t, Ev("ContainerList", "label", ok))
        /\ IF ok
           THEN /\ listed' = [listed EXCEPT ![t] = NewestFirst(ProjectContainers)]
                /\ status' = [status EXCEPT ![t] = <<>>]
                /\ pc' = [pc EXCEPT ![t] = "status_loop"]
                /\ UNCHANGED ret
           ELSE /\ WaitReturn(t, "list containers")
                /\ UNCHANGED <<listed, status>>
    /\ UNCHANGED <<waitFrame, elapsed>>

\* Status: a listed container without a service label is passed over.
StatusSkip(t) ==
    /\ pc[t] = "status_loop"
    /\ listed[t] # <<>>
    /\ Head(listed[t]).svc = ""
    /\ listed' = [listed EXCEPT ![t] = Tail(@)]
    /\ UNCHANGED <<waitFrame, pc, ret, trace, faults, elapsed, status>>

\* Status: ContainerInspect of a listed container; health stays "none" when the
\* inspection fails or the container has no healthcheck. The entry of the
\* service is written, over an earlier one of the same service.
StatusInspect(t) ==
    /\ pc[t] = "status_loop"
    /\ listed[t] # <<>>
    /\ LET c == Head(listed[t]) IN
        /\ c.svc # ""
        /\ \E ok \in Outcomes(t, Present(containers, c.id)) :
            /\ Fault(t, ok, Present(containers, c.id))
            /\ Log(t, Ev("ContainerInspect", c.id, ok))
            /\ status' = [status EXCEPT ![t] =
                    Put(@, c.svc,
                        [State |-> c.state,
                         Health |-> IF ok /\ HasHealthcheck(c.id) THEN healthOf[c.id]
                                    ELSE "none",
                         ContainerID |-> c.id])]
    /\ listed' = [listed EXCEPT ![t] = Tail(@)]
    /\ UNCHANGED <<waitFrame, pc, ret, elapsed>>

\* Status returns; WaitForHealthy tests every entry, and compares
\* len(status.Services) with len(s.project.Services).
WaitEvaluate(t) ==
    /\ pc[t] = "status_loop"
    /\ listed[t] = <<>>
    /\ LET allHealthy == \A k \in DOMAIN status[t] : Acceptable(status[t][k]) IN
       IF allHealthy /\ Cardinality(DOMAIN status[t]) = Cardinality(services)
       THEN WaitReturn(t, Nil)
       ELSE /\ pc' = [pc EXCEPT ![t] = "wh_sleep"]
            /\ UNCHANGED ret
    /\ UNCHANGED <<waitFrame, listed, trace, faults, elapsed, status>>

\* The context-aware sleep: select on ctx.Done() and the 2 s timer.
WaitSleep(t) ==
    /\ pc[t] = "wh_sleep"
    /\ IF ctx[t] = "cancelled"
       THEN /\ WaitReturn(t, "context cancelled while waiting for services")
            /\ UNCHANGED elapsed
       ELSE /\ elapsed' = [elapsed EXCEPT ![t] = @ + 1]
            /\ pc' = [pc EXCEPT ![t] = "wh_head"]
            /\ UNCHANGED ret
    /\ UNCHANGED <<waitFrame, listed, trace, faults, status>>

\* Time passes while an engine call of the poll is under way.
Tick(t) ==
    /\ pc[t] \in {"status_list", "status_loop"}
    /\ elapsed[t] < timeout[t]
    /\ elapsed' = [elapsed EXCEPT ![t] = @ + 1]
    /\ UNCHANGED <<waitFrame, pc, listed, ret, trace, faults, status>>

WaitStep(t) ==
    \/ WaitHead(t) \/ StatusList(t) \/ StatusSkip(t) \/ StatusInspect(t)
    \/ WaitEvaluate(t) \/ WaitSleep(t)

\* ------------------------------------------------------------ environment
\* A running container of the project exits (or is stopped through the engine)
\* while no call is running.
ContainerExits(id) ==
    /\ AllIdle
    /\ \E c \in ProjectContainers : c.id = id /\ c.state = "running"
    /\ faults < MaxFaults
    /\ faults' = faults + 1
    /\ SetState(id, "exited")
    /\ UNCHANGED <<networks, volumes, images, nextId, dependsOn, memory, op, pc, ctx,
                   rollback, startLocals, stopLocals, ret, trace, calls, lastStart, more>>

\* The healthcheck of a container reports another status.
HealthChanges(id, h) ==
    /\ HasHealthcheck(id)
    /\ Present(containers, id)
    /\ h # healthOf[id]
    /\ faults < MaxFaults
    /\ faults' = faults + 1
    /\ healthOf' = [healthOf EXCEPT ![id] = h]
    /\ UNCHANGED <<engine, dependsOn, memory, op, pc, ctx, rollback, startLocals,
                   stopLocals, ret, trace, calls, lastStart, lastStop, project,
                   waitLocals, plan>>

\* The process ends and New builds a fresh instance for the same project.
New(t) ==
    /\ op[t] = "idle"
    /\ networkIDs[t] # {} \/ volumeNames[t] # <<>>
    /\ networkIDs' = [networkIDs EXCEPT ![t] = {}]
    /\ volumeNames' = [volumeNames EXCEPT ![t] = <<>>]
    /\ UNCHANGED <<engine, dependsOn, op, pc, ctx, rollback, startLocals, stopLocals,
                   ret, trace, calls, faults, lastStart, more>>

\* ------------------------------------------------------------------ Next
StartStep(t) ==
    \/ startNetworkList(t) \/ startNetworkCreate(t) \/ startNetworksDone(t)
    \/ startVolumeList(t) \/ startVolumeCreate(t) \/ startVolumesDone(t)
    \/ startSort(t) \/ startServicesDone(t)
    \/ startServiceList(t) \/ startServiceStartExisting(t) \/ startServiceImage(t)
    \/ startServicePull(t) \/ startServiceCreate(t) \/ startServiceStart(t)
    \/ StartReturnNil(t) \/ StartCleanup(t)

StopStep(t) ==
    \/ stopContainersList(t) \/ stopContainersLoop(t) \/ stopContainersStop(t)
    \/ stopContainersKill(t) \/ stopContainersSettle(t) \/ stopContainersRemove(t)
    \/ stopContainersBackoff(t)
    \/ removeNetworksList(t) \/ removeNetworksLoop(t) \/ removeNetworksRemove(t)
    \/ removeNetworksBackoff(t)
    \/ removeVolumesList(t) \/ removeVolumesLoop(t)
    \/ StopReturn(t)

Next ==
    \/ \E t \in Instances :
        \/ CallStart(t) \/ CallStop(t) \/ StartStep(t) \/ StopStep(t)
        \/ Cancel(t) \/ Return(t) \/ New(t)
    \/ \E id \in 1..nextId : ContainerExits(id)

Spec == Init /\ [][Next]_vars

\* ------------------------------------------------- Stop of a deployed project
\* The engine as a Start that returned nil leaves it: one container per
\* service, the network and the volume, all labelled; a container may have
\* exited since.
DeployedContainers(st) ==
    {[id |-> 2, name |-> containerName("db"), proj |-> TRUE, svc |-> "db",
      state |-> st["db"]],
     [id |-> 3, name |-> containerName("api"), proj |-> TRUE, svc |-> "api",
      state |-> st["api"]]}
DeployedNetworks ==
    {[id |-> 4, name |-> ScopedName(n), proj |-> TRUE, role |-> n] : n \in Networks}
DeployedVolumes ==
    {[name |-> ScopedName(v), proj |-> TRUE, role |-> v] : v \in Volumes}

\* The containers of another owner that may stand beside a deployed project:
\* container names are unique on the engine.
Bystanders == {c \in ForeignContainers : \A s \in Services : c.name # containerName(s)}

\* A volume that carries the project's label though the compose file no longer
\* declares it (created by a Start of an earlier version of the file).
LeftoverVolumes == {[name |-> ScopedName("cache"), proj |-> TRUE, role |-> "cache"]}

InitStop ==
    /\ userLabels = NoUserLabels
    /\ services = Services
    /\ dependsOn = [s \in Services |-> {}]
    /\ \E st \in [Services -> {"running", "exited"}] :
         \E F \in {{}} \cup {{c} : c \in Bystanders} :
            containers = DeployedContainers(st) \cup F
    /\ networks = DeployedNetworks
    /\ volumes \in {DeployedVolumes, DeployedVolumes \cup LeftoverVolumes}
    /\ healthOf = <<>>
    /\ images = Services
    /\ nextId = 5
    /\ Fresh

NextStop ==
    \/ \E t \in Instances : CallStop(t) \/ StopStep(t) \/ Cancel(t) \/ Return(t)
    \/ \E id \in 1..nextId : ContainerExits(id)

\* A fresh instance (a restarted process) tears a deployed project down.
SpecStop == InitStop /\ [][NextStop]_vars

\* ----------------------------------- Stop by the instance that ran Start,
\* or by a new one
\* What Start left in the instance that deployed the project: the ID of the
\* network it created and the name of the volume it created.
StartedMemory ==
    /\ networkIDs = [t \in Instances |->
                        IF t = 1 THEN {<<n.role, n.id>> : n \in DeployedNetworks} ELSE {}]
    /\ volumeNames = [t \in Instances |->
                        IF t = 1 THEN AnyOrder({v.name : v \in DeployedVolumes}) ELSE <<>>]

\* Instance 1 ran the Start that deployed the project; instance 2 is new.
InitRestart ==
    /\ userLabels = NoUserLabels
    /\ services = Services
    /\ dependsOn = [s \in Services |-> {}]
    /\ \E st \in [Services -> {"running", "exited"}] :
         \E F \in {{}} \cup {{c} : c \in Bystanders} :
            containers = DeployedContainers(st) \cup F
    /\ networks = DeployedNetworks
    /\ volumes = DeployedVolumes
    /\ healthOf = <<>>
    /\ images = Services
    /\ nextId = 5
    /\ StartedMemory
    /\ NoCall

\* Stop is called on either instance, no other call running.
StopOnEither(t) ==
    /\ AllIdle
    /\ BeginStop(t)

NextRestart ==
    \/ \E t \in Instances : StopOnEither(t) \/ StopStep(t) \/ Cancel(t) \/ Return(t)
    \/ \E id \in 1..nextId : ContainerExits(id)

\* The project is torn down by the instance that started it or by a new one.
SpecRestart == InitRestart /\ [][NextRestart]_vars

\* ------------------------------------- two Starts of one project at a time
InitConcurrent ==
    /\ userLabels = NoUserLabels
    /\ services = {"db"}
    /\ dependsOn = [s \in Services |-> {}]
    /\ containers = {}
    /\ networks = {}
    /\ volumes = {}
    /\ healthOf = <<>>
    /\ images = {}
    /\ nextId = 2
    /\ networkIDs = [t \in Instances |-> {}]
    /\ volumeNames = [t \in Instances |-> <<>>]
    /\ op = [t \in Instances |-> "idle"]
    /\ pc = [t \in Instances |-> "idle"]
    /\ ctx = [t \in Instances |-> "live"]
    /\ rollback = [t \in Instances |-> FALSE]
    /\ startErr = [t \in Instances |-> Nil]
    /\ lastErr = [t \in Instances |-> Nil]
    /\ phaseErr = [t \in Instances |-> <<>>]
    /\ attempt = [t \in Instances |-> 0]
    /\ todoNets = [t \in Instances |-> {}]
    /\ todoVols = [t \in Instances |-> {}]
    /\ ordered = [t \in Instances |-> <<>>]
    /\ listed = [t \in Instances |-> <<>>]
    /\ cur = [t \in Instances |-> Nil]
    /\ ret = [t \in Instances |-> Nil]
    /\ trace = [t \in Instances |-> <<>>]
    /\ calls = 0
    /\ faults = MaxFaults - 1
    /\ lastStart = [valid |-> FALSE, running |-> {}]
    /\ lastStop = FALSE
    /\ timeout = [t \in Instances |-> 0]
    /\ elapsed = [t \in Instances |-> 0]
    /\ status = [t \in Instances |-> <<>>]
    /\ plan = NoPlan

\* Start is called on an instance that runs no call, whatever the other
\* instance is doing.
StartConcurrently(t) ==
    /\ op[t] = "idle"
    /\ BeginStart(t)

NextConcurrent ==
    \E t \in Instances :
        \/ StartConcurrently(t) \/ StartStep(t) \/ StopStep(t) \/ Return(t)

\* Two instances for the same project, each with a caller of its own; the
\* engine serializes their calls.
SpecConcurrent == InitConcurrent /\ [][NextConcurrent]_vars

\* ------------------------------------------ WaitForHealthy on a live engine
HealthValues == {"starting", "healthy", "unhealthy"}

\* A container carrying the project label and the service label sv ("" for
\* none).
Labelled(id, sv, st) ==
    [id |-> id, name |-> <<sv, "">>, proj |-> TRUE, svc |-> sv, state |-> st]

\* Beside the containers of the declared services the engine may hold one more
\* container with the project label: of a service the project does not
\* declare, without a service label, or a second, exited container of db.
Strays ==
    {Labelled(4, "extra", "running"), Labelled(4, "", "running"),
     [id |-> 4, name |-> LongerName("db"), proj |-> TRUE, svc |-> "db", state |-> "exited"]}

\* The engine when WaitForHealthy is called: each declared service has no
\* container, a running one or an exited one; db may have a healthcheck.
InitHealth ==
    /\ userLabels = NoUserLabels
    /\ services = Services
    /\ dependsOn = [s \in Services |-> {}]
    /\ \E db \in {{}} \cup {{Labelled(2, "db", st)} : st \in {"running", "exited"}} :
         \E api \in {{}} \cup {{Labelled(3, "api", st)} : st \in {"running", "exited"}} :
            \E x \in {{}} \cup {{c} : c \in Strays} :
                containers = db \cup api \cup x
    /\ \E D \in {{}, {2}} : healthOf \in [D -> HealthValues]
    /\ networks = DeployedNetworks
    /\ volumes = DeployedVolumes
    /\ images = Services
    /\ nextId = 5
    /\ Fresh

NextHealth ==
    \/ \E t \in Instances :
        \/ CallWaitForHealthy(t) \/ WaitStep(t) \/ Tick(t) \/ Cancel(t) \/ Return(t)
    \/ \E id \in 1..nextId : ContainerExits(id)
    \/ \E id \in 1..nextId : \E h \in HealthValues : HealthChanges(id, h)

\* Callers poll the health of a project whose containers are on the engine.
SpecHealth == InitHealth /\ [][NextHealth]_vars

\* ------------------------------------------------ a project without services
\* The project declares its network and its volume and no service; the engine
\* holds nothing.
InitEmpty ==
    /\ userLabels = NoUserLabels
    /\ services = {}
    /\ dependsOn = [s \in Services |-> {}]
    /\ containers = {}
    /\ networks \in {{}} \cup {{n} : n \in ForeignNetworks}
    /\ volumes \in {{}} \cup {{v} : v \in ForeignVolumes}
    /\ healthOf = <<>>
    /\ images = {}
    /\ nextId = 2
    /\ Fresh

\* The steps Start, WaitForHealthy and Stop take when no container is declared
\* and none is listed.
NextEmpty ==
    \E t \in Instances :
        \/ CallStart(t) \/ CallWaitForHealthy(t) \/ CallStop(t)
        \/ startNetworkList(t) \/ startNetworkCreate(t) \/ startNetworksDone(t)
        \/ startVolumeList(t) \/ startVolumeCreate(t) \/ startVolumesDone(t)
        \/ startSort(t) \/ startServicesDone(t) \/ StartReturnNil(t) \/ StartCleanup(t)
        \/ WaitHead(t) \/ StatusList(t) \/ WaitEvaluate(t) \/ Tick(t)
        \/ stopContainersList(t) \/ stopContainersLoop(t)
        \/ removeNetworksList(t) \/ removeNetworksLoop(t) \/ removeNetworksRemove(t)
        \/ removeNetworksBackoff(t)
        \/ removeVolumesList(t) \/ removeVolumesLoop(t) \/ StopReturn(t)
        \/ Cancel(t) \/ Return(t) \/ New(t)

SpecEmpty == InitEmpty /\ [][NextEmpty]_vars

\* ------------------------------------- sortServicesByDependency, step by step
\* The run of the planner is the record plan: pc its position, visit the
\* services the running "range services" has still to yield, added, result and
\* progress the locals of those names, runs the results returned so far.
planFrame == <<engine, dependsOn, memory, op, pc, ctx, rollback, startLocals, stopLocals,
               ret, trace, calls, faults, lastStart, lastStop, project, healthOf,
               waitLocals>>

\* (mutant) A planner that takes every pass for one that made progress.
NoProgress_Never(progress) == FALSE

\* "if !progress"
NoProgress(progress) == ~progress

\* sortServicesByDependency is called: added and result are empty.
PlanCall ==
    /\ plan.pc = "idle"
    /\ Len(plan.runs) < MaxCalls
    /\ plan' = [plan EXCEPT !.pc = "outer", !.added = {}, !.result = <<>>,
                            !.visit = {}, !.progress = FALSE]
    /\ UNCHANGED planFrame

\* "for len(result) < len(services)": a pass begins, or the loop is over.
PlanOuter ==
    /\ plan.pc = "outer"
    /\ plan' = IF Len(plan.result) < Cardinality(services)
               THEN [plan EXCEPT !.pc = "pass", !.visit = services, !.progress = FALSE]
               ELSE [plan EXCEPT !.pc = "done"]
    /\ UNCHANGED planFrame

\* One iteration of "for name, svc := range services": the map yields its
\* entries in an order of its own.
PlanVisit ==
    /\ plan.pc = "pass"
    /\ \E name \in plan.visit :
        plan' = IF name \notin plan.added /\ allDepsSatisfied(name, plan.added)
                THEN [plan EXCEPT !.visit = @ \ {name},
                                  !.result = Append(@, name),
                                  !.added = @ \cup {name},
                                  !.progress = TRUE]
                ELSE [plan EXCEPT !.visit = @ \ {name}]
    /\ UNCHANGED planFrame

\* The pass is over: without progress the fallback loop begins.
PlanPassEnd ==
    /\ plan.pc = "pass"
    /\ plan.visit = {}
    /\ plan' = IF NoProgress(plan.progress)
               THEN [plan EXCEPT !.pc = "fallback", !.visit = services]
               ELSE [plan EXCEPT !.pc = "outer"]
    /\ UNCHANGED planFrame

\* One iteration of the fallback loop: a service not yet added is appended.
PlanFallback ==
    /\ plan.pc = "fallback"
    /\ \E name \in plan.visit :
        plan' = IF name \notin plan.added
                THEN [plan EXCEPT !.visit = @ \ {name},
                                  !.result = Append(@, name),
                                  !.added = @ \cup {name}]
                ELSE [plan EXCEPT !.visit = @ \ {name}]
    /\ UNCHANGED planFrame

\* The fallback loop is over: break.
PlanBreak ==
    /\ plan.pc = "fallback"
    /\ plan.visit = {}
    /\ plan' = [plan EXCEPT !.pc = "done"]
    /\ UNCHANGED planFrame

\* return result
PlanReturn ==
    /\ plan.pc = "done"
    /\ plan' = [NoPlan EXCEPT !.runs = Append(plan.runs, plan.result)]
    /\ UNCHANGED planFrame

\* The projects the planner is run on: any subset of the services, each
\* depending on any services, itself and an undeclared one included.
PlannerGraphs ==
    {g \in [Services -> SUBSET (Services \cup {"ghost"})] :
        \A sv \in Services \ services : g[sv] = {}}

InitPlanner ==
    /\ userLabels = NoUserLabels
    /\ services \in SUBSET Services
    /\ dependsOn \in PlannerGraphs
    /\ containers = {}
    /\ networks = {}
    /\ volumes = {}
    /\ healthOf = <<>>
    /\ images = {}
    /\ nextId = 2
    /\ Fresh

NextPlanner ==
    \/ PlanCall \/ PlanOuter \/ PlanVisit \/ PlanPassEnd
    \/ PlanFallback \/ PlanBreak \/ PlanReturn

\* The planner is sequential code: a run that can take a step takes it.
SpecPlanner == InitPlanner /\ [][NextPlanner]_vars /\ WF_vars(NextPlanner)

\* ------------------------------------------- a project that declares labels
\* What a compose file can declare under the two keys: nothing, or a value of
\* its own.
UserLabelSets == {[project |-> p, role |-> r] : p \in {"", "other"}, r \in {"", "other"}}

InitLabels ==
    /\ services = Services
    /\ userLabels \in UserLabelSets
    /\ dependsOn = [s \in Services |-> IF s = "api" THEN {"db"} ELSE {}]
    /\ containers = {}
    /\ networks = {}
    /\ volumes = {}
    /\ healthOf = <<>>
    /\ images = {}
    /\ nextId = 2
    /\ Fresh

\* Start and Stop of a project whose compose file may declare the labels that
\* Start assigns.
SpecLabels == InitLabels /\ [][Next]_vars

\* =============================================================== claims
\* ---------------------------------------------------------------- helpers
Idx(t) == 1..Len(trace[t])

\* Where the Stop of the running call begins in its trace: after the cleanup
\* mark when it is the rollback of Start, else at the first call.
StopFrom(t) ==
    IF \E i \in Idx(t) : trace[t][i].call = "cleanup"
    THEN CHOOSE i \in Idx(t) : trace[t][i].call = "cleanup"
    ELSE 0

StopIdx(t) == {i \in Idx(t) : i > StopFrom(t)}
StartIdx(t) == IF op[t] = "Start"
               THEN {i \in Idx(t) : rollback[t] => i < StopFrom(t)}
               ELSE {}

\* A Stop (called, or run as the rollback) has returned.
StopDone(t) == pc[t] = "ret" /\ (op[t] = "Stop" \/ rollback[t])
StopCalledDone(t) == pc[t] = "ret" /\ op[t] = "Stop"
StartDone(t) == pc[t] = "ret" /\ op[t] = "Start"

ContainerCalls == {"ContainerStop", "ContainerKill", "ContainerRemove"}
RemoveCalls == {"ContainerRemove", "NetworkRemove", "VolumeRemove"}

Cancelled(t) == \E i \in StopIdx(t) : trace[t][i].call = "cancel"

\* A removal of the Stop failed for good: a failed remove call with no later
\* successful remove of the same object.
PermanentFailure(t) ==
    \E i \in StopIdx(t) :
        /\ trace[t][i].call \in RemoveCalls
        /\ ~trace[t][i].ok
        /\ ~\E j \in StopIdx(t) :
              /\ j > i
              /\ trace[t][j].call = trace[t][i].call
              /\ trace[t][j].arg = trace[t][i].arg
              /\ trace[t][j].ok

ListFailed(t) ==
    \E i \in StopIdx(t) :
        /\ trace[t][i].call \in {"ContainerList", "NetworkList", "VolumeList"}
        /\ ~trace[t][i].ok

\* --------------------------------------------------------------------- C1
\* C1 as stated: when Stop has returned, was not cancelled, and no removal
\* failed for good, the engine holds no container, network or volume carrying
\* the project label.
C1_StopRemovesAll_AsStated ==
    \A t \in Instances :
        (StopCalledDone(t) /\ ~Cancelled(t) /\ ~PermanentFailure(t)) => NothingLeft

\* C1 amended: the same, when also each of the three label listings of that
\* Stop succeeded.
C1_StopRemovesAll ==
    \A t \in Instances :
        (StopCalledDone(t) /\ ~Cancelled(t) /\ ~PermanentFailure(t) /\ ~ListFailed(t))
            => NothingLeft

\* A Stop that met containers, a network and a volume of the project, retried
\* a removal, and returned with all of them removed.
C1_Witness ==
    \E t \in Instances :
        /\ StopCalledDone(t) /\ ~Cancelled(t) /\ ~PermanentFailure(t) /\ ~ListFailed(t)
        /\ \E i \in StopIdx(t) : trace[t][i].call = "ContainerRemove" /\ ~trace[t][i].ok
        /\ \E i \in StopIdx(t) : trace[t][i].call = "NetworkRemove" /\ trace[t][i].ok
        /\ \E i \in StopIdx(t) : trace[t][i].call = "VolumeRemove" /\ trace[t][i].ok
        /\ NothingLeft

\* --------------------------------------------------------------------- C2
\* The container of a declared service: the one that bears its container name.
ServiceUp(s) == \E c \in containers : c.name = containerName(s) /\ c.state = "running"

\* What the Start of the running call created is gone from the engine.
CreatedGone(t) ==
    \A i \in StartIdx(t) :
        /\ (trace[t][i].call = "NetworkCreate" /\ trace[t][i].ok)
              => ~\E n \in ProjectNetworks : n.name = trace[t][i].arg
        /\ (trace[t][i].call = "VolumeCreate" /\ trace[t][i].ok)
              => ~\E v \in ProjectVolumes : v.name = trace[t][i].arg
        /\ (trace[t][i].call = "ContainerCreate" /\ trace[t][i].ok)
              => ~\E c \in ProjectContainers : c.name = containerName(trace[t][i].arg)

\* C2, first half: when Start has returned nil, every declared service has a
\* container of its own, and that container is running.
C2_StartNilAllServicesUp ==
    \A t \in Instances :
        (StartDone(t) /\ ret[t] = Nil) => \A s \in Services : ServiceUp(s)

\* C2, second half: when Start has returned an error and no removal of the
\* rollback failed for good, nothing this Start created is left on the engine.
C2_StartErrNothingLeft ==
    \A t \in Instances :
        (StartDone(t) /\ ret[t] # Nil /\ ~PermanentFailure(t)) => CreatedGone(t)

\* --------------------------------------------------------------------- C3
\* The steps of Start that failed (a failed image inspection is no failure of
\* Start: the image is pulled).
FailedSteps(t) ==
    {i \in StartIdx(t) : ~trace[t][i].ok /\ trace[t][i].call # "ImageInspect"}

FirstFailed(t) == CHOOSE i \in FailedSteps(t) : \A j \in FailedSteps(t) : i <= j

\* The error Start builds for a failed engine call.
ErrOf(e) ==
    CASE e.call = "NetworkList" -> "list networks"
      [] e.call = "NetworkCreate" -> "create network"
      [] e.call = "VolumeList" -> "list volumes"
      [] e.call = "VolumeCreate" -> "create volume"
      [] e.call = "ContainerList" -> "start service: list containers"
      [] e.call = "ImagePull" -> "start service: pull image"
      [] e.call = "ContainerCreate" -> "start service: create container"
      [] e.call = "ContainerStart" ->
            IF e.existing THEN "start service: start existing container"
            ELSE "start service: start container"
      [] OTHER -> "?"

RollbackHadErrors(t) ==
    rollback[t] /\ \E i \in 1..Len(phaseErr[t]) : phaseErr[t][i] # Nil

\* C3: when Start has returned after a step failed, it returned the error of
\* the step that failed first, whatever the rollback Stop did or returned.
C3_StartReturnsFirstError ==
    \A t \in Instances :
        (StartDone(t) /\ FailedSteps(t) # {}) => ret[t] = ErrOf(trace[t][FirstFailed(t)])

\* A failed Start whose rollback itself had an error has returned.
C3_Witness ==
    \E t \in Instances :
        /\ StartDone(t) /\ FailedSteps(t) # {}
        /\ RollbackHadErrors(t)
        /\ ret[t] = ErrOf(trace[t][FirstFailed(t)])

\* --------------------------------------------------------------------- C4
\* C4: when a removal failed for good during Stop, Stop returns a
\* PartialCleanup error; it returns no error only when no removal failed.
C4_StopReportsPartialCleanup ==
    \A t \in Instances :
        StopCalledDone(t) =>
            /\ PermanentFailure(t) => ret[t] = "PartialCleanup"
            /\ ret[t] = Nil => ~PermanentFailure(t)

\* --------------------------------------------------------------------- C5
Issued(t, call, arg) ==
    \E i \in StopIdx(t) : trace[t][i].call = call /\ trace[t][i].arg = arg

\* What the phase that Stop ran as its k-th returned ("none" if Stop ran no
\* k-th phase).
PhaseErr(t, k) == IF k <= Len(phaseErr[t]) THEN phaseErr[t][k] ELSE "none"

\* C5: when Stop has returned and its container phase reported a list failure
\* or a removal failure, the network phase was run (its list call was
\* issued); when the network phase reported such an error, the volume phase
\* was run.
C5_LaterPhasesRun ==
    \A t \in Instances :
        StopDone(t) =>
            /\ PhaseErr(t, 1) \in {"list containers", "remove container"}
                  => Issued(t, "NetworkList", "label")
            /\ PhaseErr(t, 2) \in {"list networks", "remove network"}
                  => Issued(t, "VolumeList", "label")

\* A Stop whose container phase failed to remove a container for good, whose
\* network phase then failed to list, and whose volume phase still ran.
C5_Witness ==
    \E t \in Instances :
        /\ StopDone(t)
        /\ PhaseErr(t, 1) = "remove container"
        /\ PhaseErr(t, 2) = "list networks"
        /\ Issued(t, "NetworkList", "label")
        /\ Issued(t, "VolumeList", "label")

\* --------------------------------------------------------------------- C6
CancelErrors ==
    {"context cancelled during container cleanup",
     "context cancelled during container removal",
     "context cancelled during network cleanup",
     "context cancelled during network removal"}

\* C6, first part: when the token was cancelled while a phase of Stop ran, so
\* that the phase returned its cancellation error, Stop returns that error.
C6_StopReturnsCancellation ==
    \A t \in Instances :
        StopCalledDone(t) =>
            \A k \in 1..Len(phaseErr[t]) :
                phaseErr[t][k] \in CancelErrors => ret[t] = phaseErr[t][k]

\* --------------------------------------------------------------------- C7
\* C7: in the trace of a Stop, no container stop, kill or remove call follows
\* a network remove call, and neither follows a volume remove call.
C7_StopOrder ==
    \A t \in Instances :
        \A i \in StopIdx(t) : \A j \in StopIdx(t) :
            i < j =>
                /\ ~(trace[t][i].call = "NetworkRemove"
                        /\ trace[t][j].call \in ContainerCalls)
                /\ ~(trace[t][i].call = "VolumeRemove"
                        /\ trace[t][j].call \in ContainerCalls \cup {"NetworkRemove"})

\* A Stop that stopped and removed a container, then removed a network, then
\* removed a volume.
C7_Witness ==
    \E t \in Instances :
        /\ StopDone(t)
        /\ \E i \in StopIdx(t) : trace[t][i].call = "ContainerStop"
        /\ \E i \in StopIdx(t) : trace[t][i].call = "ContainerRemove"
        /\ \E i \in StopIdx(t) : trace[t][i].call = "NetworkRemove"
        /\ \E i \in StopIdx(t) : trace[t][i].call = "VolumeRemove"

\* --------------------------------------------------------------------- C8
NetworkCalls == {"NetworkList", "NetworkCreate"}
VolumeCalls == {"VolumeList", "VolumeCreate"}
CreateStartCalls == {"ContainerCreate", "ContainerStart"}

\* Every network the service references and every named volume it mounts is
\* on the engine.
Resolves(svc) ==
    /\ \A n \in svcNetworks[svc] : \E x \in networks : x.name = ScopedName(n)
    /\ \A v \in svcVolumes[svc] : \E x \in volumes : x.name = ScopedName(v)

\* C8: in the trace of a Start no network lookup or create follows a volume
\* lookup or create, and neither follows a container create or start; and
\* whenever Start is about to create or start the container of a service,
\* the networks and the named volumes of that service exist.
C8_StartOrder ==
    \A t \in Instances :
        /\ \A i \in StartIdx(t) : \A j \in StartIdx(t) :
            i < j =>
                /\ ~(trace[t][i].call \in VolumeCalls /\ trace[t][j].call \in NetworkCalls)
                /\ ~(trace[t][i].call \in CreateStartCalls
                        /\ trace[t][j].call \in NetworkCalls \cup VolumeCalls)
        /\ (op[t] = "Start" /\ pc[t] \in {"ss_create", "ss_start", "ss_start_existing"})
              => Resolves(Head(ordered[t]))

\* A Start that created a network, a volume and a container, in that order,
\* and started the container.
C8_Witness ==
    \E t \in Instances :
        /\ StartDone(t) /\ ret[t] = Nil
        /\ \E i \in StartIdx(t) : \E j \in StartIdx(t) : \E k \in StartIdx(t) :
            /\ i < j /\ j < k
            /\ trace[t][i].call = "NetworkCreate" /\ trace[t][i].ok
            /\ trace[t][j].call = "VolumeCreate" /\ trace[t][j].ok
            /\ trace[t][k].call = "ContainerCreate" /\ trace[t][k].ok
            /\ trace[t][k].arg = "db"

\* --------------------------------------------------------------------- C9
\* In the trace of the Start, every start of d's container precedes every
\* start of s's container.
StartsBefore(t, d, s) ==
    \A i \in StartIdx(t) : \A j \in StartIdx(t) :
        (/\ trace[t][i].call = "ContainerStart" /\ trace[t][i].svc = s
         /\ trace[t][j].call = "ContainerStart" /\ trace[t][j].svc = d) => j < i

\* The depends_on graph has no cycle: the services can be ranked so that
\* every dependency ranks below its dependent.
Acyclic ==
    \E rank \in [Services -> 1..Cardinality(Services)] :
        \A s \in Services : \A d \in dependsOn[s] : rank[d] < rank[s]

\* C9 as stated: when Start has returned nil, for every service S and every D
\* in S.depends_on the container start of D precedes the container start of S.
C9_DependsOnOrder_AsStated ==
    \A t \in Instances :
        (StartDone(t) /\ ret[t] = Nil) =>
            \A s \in Services : \A d \in dependsOn[s] : StartsBefore(t, d, s)

\* C9 amended: the same, for a depends_on graph without a cycle.
C9_DependsOnOrder ==
    \A t \in Instances :
        (StartDone(t) /\ ret[t] = Nil /\ Acyclic) =>
            \A s \in Services : \A d \in dependsOn[s] : StartsBefore(t, d, s)

\* A successful Start of a project in which api depends on db, that started
\* the containers of both.
C9_Witness ==
    \E t \in Instances :
        /\ StartDone(t) /\ ret[t] = Nil /\ Acyclic
        /\ "db" \in dependsOn["api"]
        /\ \E i \in StartIdx(t) : \E j \in StartIdx(t) :
            /\ i < j
            /\ trace[t][i].call = "ContainerStart" /\ trace[t][i].svc = "db"
            /\ trace[t][j].call = "ContainerStart" /\ trace[t][j].svc = "api"

\* -------------------------------------------------------------------- C10
NoCreate(t) == ~\E i \in StartIdx(t) : trace[t][i].call = "ContainerCreate"

\* C10 as stated: a Start called after a Start that returned nil, with no Stop
\* in between, issues no container create and leaves the set of running
\* containers as the first Start left it.
C10_SecondStart_AsStated ==
    \A t \in Instances :
        (StartDone(t) /\ lastStart.valid) => NoCreate(t) /\ Running = lastStart.running

\* C10 amended: such a Start issues no container create; when it returns nil,
\* the set of running containers is the one the first Start left.
C10_SecondStart ==
    \A t \in Instances :
        (StartDone(t) /\ lastStart.valid) =>
            /\ NoCreate(t)
            /\ ret[t] = Nil => Running = lastStart.running

\* A second Start that found a container of the project exited, started it in
\* place and returned nil.
C10_Witness ==
    \E t \in Instances :
        /\ StartDone(t) /\ lastStart.valid /\ ret[t] = Nil
        /\ \E i \in StartIdx(t) :
            /\ trace[t][i].call = "ContainerStart" /\ trace[t][i].ok
            /\ trace[t][i].existing
            /\ \E c \in ProjectContainers : c.id = trace[t][i].arg
        /\ Running = lastStart.running

\* -------------------------------------------------------------------- C11
\* C11: a Stop called after a Stop that left nothing of the project on the
\* engine issues no stop, kill or remove call against a container, a network
\* or a volume, and returns no error.
C11_StopIdempotent ==
    \A t \in Instances :
        (op[t] = "Stop" /\ lastStop) =>
            /\ \A i \in Idx(t) : trace[t][i].call \notin ContainerCalls \cup RemoveCalls
            /\ pc[t] = "ret" => ret[t] = Nil

\* The second Stop of a project that the first Stop removed whole has listed
\* the containers, the networks and the volumes, and has returned.
C11_Witness ==
    \E t \in Instances :
        /\ StopCalledDone(t) /\ lastStop /\ calls = 2
        /\ \A call \in {"ContainerList", "NetworkList", "VolumeList"} :
              \E i \in Idx(t) : trace[t][i].call = call /\ trace[t][i].ok
        /\ ret[t] = Nil

\* -------------------------------------------------------------------- C12
\* The positions of a running Stop (called, or run as the rollback of Start).
StopPcs ==
    {"sc_list", "sc_loop", "sc_stop", "sc_kill", "sc_settle", "sc_remove", "sc_backoff",
     "rn_list", "rn_loop", "rn_remove", "rn_backoff", "rv_list", "rv_loop", "stop_ret"}

\* C12: no step of Stop stops, kills or removes a container, a network or a
\* volume that does not carry the project label: every such resource is on
\* the engine after the step as it was before, its state included.
C12_StopFence ==
    [][(\E t \in Instances : pc[t] \in StopPcs) =>
          /\ {c \in containers' : ~c.proj} = {c \in containers : ~c.proj}
          /\ {n \in networks' : ~n.proj} = {n \in networks : ~n.proj}
          /\ {v \in volumes' : ~v.proj} = {v \in volumes : ~v.proj}]_vars

\* A Stop that removed a container of the project has returned, and the
\* container of another owner that bears the scoped name of a service is
\* still on the engine.
C12_Witness ==
    \E t \in Instances :
        /\ StopCalledDone(t)
        /\ \E i \in StopIdx(t) : trace[t][i].call = "ContainerRemove" /\ trace[t][i].ok
        /\ \E c \in containers : ~c.proj /\ c.name = containerName("db")

\* -------------------------------------------------------------------- C13
\* A container, network or volume without the project label bears a scoped
\* name of the project.
ForeignCollision ==
    \/ \E c \in containers : ~c.proj /\ \E sv \in services : c.name = containerName(sv)
    \/ \E n \in networks : ~n.proj /\ \E d \in Networks : n.name = ScopedName(d)
    \/ \E v \in volumes : ~v.proj /\ \E d \in Volumes : v.name = ScopedName(d)

\* C13: a Start that has looked up every network, volume and service of the
\* project while such a resource is on the engine does not return nil (it
\* fails with ResourceConflict), and it has started no container that bears
\* the scoped name of a service and lacks the project label.
C13_StartRejectsForeign ==
    \A t \in Instances :
        /\ (StartDone(t) /\ ForeignCollision) => ret[t] # Nil
        /\ \A i \in StartIdx(t) :
              (trace[t][i].call = "ContainerStart" /\ trace[t][i].ok)
                  => ~\E c \in containers : /\ c.id = trace[t][i].arg
                                              /\ c.name = containerName(trace[t][i].svc)
                                              /\ ~c.proj

\* -------------------------------------------------------------------- C14
WaitDone(t) == pc[t] = "ret" /\ op[t] = "WaitForHealthy"

\* The engine calls of the last poll: those after the last ContainerList.
LastPoll(t) ==
    {i \in Idx(t) : ~\E j \in Idx(t) : j >= i /\ trace[t][j].call = "ContainerList"}

Polls(t) == Cardinality({i \in Idx(t) : trace[t][i].call = "ContainerList"})

InspectFailed(t, id) ==
    \E i \in LastPoll(t) :
        trace[t][i].call = "ContainerInspect" /\ trace[t][i].arg = id /\ ~trace[t][i].ok

\* C14: when WaitForHealthy has returned nil, every service of the snapshot of
\* its last poll is in state running and not in health starting or unhealthy,
\* and every service whose container has a healthcheck that the poll inspected
\* is in health healthy.
C14_HealthAcceptance ==
    \A t \in Instances :
        (WaitDone(t) /\ ret[t] = Nil) =>
            \A k \in DOMAIN status[t] :
                LET info == status[t][k] IN
                /\ info.State = "running"
                /\ info.Health \notin {"starting", "unhealthy"}
                /\ (HasHealthcheck(info.ContainerID)
                        /\ ~InspectFailed(t, info.ContainerID)) => info.Health = "healthy"

\* A WaitForHealthy that did not accept its first poll has returned nil from a
\* later one, in which db reported healthy and api has no healthcheck.
C14_Witness ==
    \E t \in Instances :
        /\ WaitDone(t) /\ ret[t] = Nil
        /\ Polls(t) >= 2
        /\ DOMAIN status[t] = Services
        /\ status[t]["db"].Health = "healthy"
        /\ status[t]["api"].Health = "none"

\* -------------------------------------------------------------------- C15
\* C15: when WaitForHealthy has returned nil, every declared service has a
\* container on the engine (also when every inspection of the last poll
\* succeeded).
C15_MissingServiceBlocks ==
    \A t \in Instances :
        (WaitDone(t) /\ ret[t] = Nil /\ \A c \in containers : ~InspectFailed(t, c.id)) =>
            \A sv \in services : \E c \in ProjectContainers : c.svc = sv

\* -------------------------------------------------------------------- C16
\* C16: WaitForHealthy does not return nil from a poll in which the inspection
\* of a container that has a healthcheck failed (also when the poll observed
\* the declared services and no other).
C16_FailedInspectBlocks ==
    \A t \in Instances :
        (WaitDone(t) /\ ret[t] = Nil /\ DOMAIN status[t] = services) =>
            ~\E c \in containers : HasHealthcheck(c.id) /\ InspectFailed(t, c.id)

\* -------------------------------------------------------------------- C17
\* C17: a WaitForHealthy called while the project has no container on the
\* engine does not poll a second time: it returns an error from its first.
C17_NotStartedImmediate ==
    \A t \in Instances :
        (op[t] = "WaitForHealthy" /\ ProjectContainers = {}) =>
            /\ Polls(t) <= 1
            /\ pc[t] # "wh_sleep"

\* -------------------------------------------------------------------- C18
\* No engine call of the running call failed and its context was not cancelled.
NoTrouble(t) == \A i \in Idx(t) : trace[t][i].ok /\ trace[t][i].call # "cancel"

\* The positions at which a call works on a container.
ContainerPcs ==
    {"ss_start_existing", "ss_image", "ss_pull", "ss_create", "ss_start",
     "sc_stop", "sc_kill", "sc_settle", "sc_remove", "sc_backoff", "wh_sleep"}

\* C18: for a project without services, Start issues no container create and,
\* its engine calls succeeding, returns nil; WaitForHealthy, its engine calls
\* succeeding, returns nil from its first poll whatever its timeout (zero
\* included); Stop returns nil.
C18_EmptyProject ==
    services = {} =>
        \A t \in Instances :
            /\ pc[t] \notin ContainerPcs
            /\ (StartDone(t) /\ NoTrouble(t)) => ret[t] = Nil
            /\ (WaitDone(t) /\ NoTrouble(t)) => (ret[t] = Nil /\ Polls(t) = 1)
            /\ StopCalledDone(t) => ret[t] = Nil

\* The same for the timeouts of at least one poll interval.
C18_EmptyProject_PositiveTimeout ==
    services = {} =>
        \A t \in Instances :
            /\ pc[t] \notin ContainerPcs
            /\ (StartDone(t) /\ NoTrouble(t)) => ret[t] = Nil
            /\ (WaitDone(t) /\ NoTrouble(t) /\ timeout[t] > 0)
                  => (ret[t] = Nil /\ Polls(t) = 1)
            /\ StopCalledDone(t) => ret[t] = Nil

\* -------------------------------------------------------------------- C19
\* C19: two runs of sortServicesByDependency on one project return the same
\* sequence.
C19_PlannerDeterministic ==
    Len(plan.runs) >= 2 => plan.runs[1] = plan.runs[2]

\* -------------------------------------------------------------------- C20
\* The sequence holds every declared service exactly once.
EveryServiceOnce(seq) ==
    /\ Len(seq) = Cardinality(services)
    /\ \A sv \in services : \E i \in 1..Len(seq) : seq[i] = sv

\* The run of the planner followed step by step returns an order that
\* sortServicesByDependency, taken as one step of Start, can return.
PlannerAgrees == plan.pc = "done" => plan.result \in sortServicesByDependency

\* C20: every run of the planner that has begun returns, and what it returns
\* holds every declared service exactly once; so does every order that Start
\* can get from the planner.
C20_PlannerTerminates ==
    /\ [](plan.pc = "done" => EveryServiceOnce(plan.result))
    /\ [](\A o \in sortServicesByDependency : EveryServiceOnce(o))
    /\ [](plan.pc # "idle" => <>(plan.pc = "done"))

\* The planner has returned both services of a project in which db depends on
\* itself and on an undeclared service and api depends on db.
C20_Witness ==
    /\ plan.pc = "done"
    /\ services = Services
    /\ dependsOn["db"] = {"db", "ghost"}
    /\ dependsOn["api"] = {"db"}
    /\ EveryServiceOnce(plan.result)

\* -------------------------------------------------------------------- C21
\* The labels of what the running Start created are the project label with
\* the project's name and the role label with the declared name.
CreatedLabelled(t) ==
    \A i \in StartIdx(t) :
        /\ (trace[t][i].call = "NetworkCreate" /\ trace[t][i].ok) =>
              \A n \in networks :
                  n.name = trace[t][i].arg => (n.proj /\ ScopedName(n.role) = n.name)
        /\ (trace[t][i].call = "VolumeCreate" /\ trace[t][i].ok) =>
              \A v \in volumes :
                  v.name = trace[t][i].arg => (v.proj /\ ScopedName(v.role) = v.name)
        /\ (trace[t][i].call = "ContainerCreate" /\ trace[t][i].ok) =>
              \A c \in containers :
                  c.name = containerName(trace[t][i].arg)
                      => (c.proj /\ c.svc = trace[t][i].arg)

\* C21: every network, volume and container that Start has created carries
\* the project label with the configured project name and its role label
\* with its declared name, whatever the compose file declares under those
\* keys.
C21_CreatedLabels == \A t \in Instances : op[t] = "Start" => CreatedLabelled(t)

\* A Start of a project whose compose file declares both labels with values
\* of its own has created a network, a volume and two containers and has
\* returned nil.
C21_Witness ==
    \E t \in Instances :
        /\ StartDone(t) /\ ret[t] = Nil
        /\ userLabels = [project |-> "other", role |-> "other"]
        /\ \A call \in {"NetworkCreate", "VolumeCreate", "ContainerCreate"} :
              \E i \in StartIdx(t) : trace[t][i].call = call /\ trace[t][i].ok
        /\ Cardinality(ProjectContainers) = 2
        /\ CreatedLabelled(t)

\* -------------------------------------------------------------------- C22
\* What the running call has removed, by kind.
Removed(t, call) ==
    {trace[t][i].arg : i \in {j \in Idx(t) : trace[t][j].call = call /\ trace[t][j].ok}}

\* Everything of the deployed project, and nothing else, was removed.
RemovedTheDeployed(t) ==
    /\ Removed(t, "ContainerRemove") = {c.id : c \in DeployedContainers([s \in Services |-> "exited"])}
    /\ Removed(t, "NetworkRemove") = {n.id : n \in DeployedNetworks}
    /\ Removed(t, "VolumeRemove") = {v.name : v \in DeployedVolumes}
    /\ NothingLeft

\* C22: the Stop of a deployed project, its engine calls succeeding, removes
\* the same containers, networks and volumes (all that carry the project's
\* label and nothing else) on the instance that ran Start and on a new
\* instance whose networkIDs and volumeNames are empty.
C22_StopIgnoresMemory ==
    \A t \in Instances :
        (StopCalledDone(t) /\ calls = 1 /\ NoTrouble(t)) => RemovedTheDeployed(t)

\* A new instance, with nothing in memory, has stopped the project that
\* instance 1 started and still remembers.
C22_Witness ==
    /\ StopCalledDone(2) /\ calls = 1 /\ NoTrouble(2)
    /\ networkIDs[1] # {} /\ volumeNames[1] # <<>>
    /\ RemovedTheDeployed(2)

\* The instance that ran Start has stopped the project.
C22_WitnessStarter ==
    /\ StopCalledDone(1) /\ calls = 1 /\ NoTrouble(1)
    /\ RemovedTheDeployed(1)

\* -------------------------------------------------------------------- C23
\* C23 (as claimed): when Start fails and a removal of the rollback fails for
\* good, the error Start returns is more than the error of the failed step:
\* it reports the rollback failure as well.
C23_RollbackReported ==
    \A t \in Instances :
        (StartDone(t) /\ rollback[t] /\ PermanentFailure(t)) => ret[t] # startErr[t]

\* -------------------------------------------------------------------- C24
\* The caller's context was cancelled while Start ran.
CallerCancelled(t) == \E i \in StartIdx(t) : trace[t][i].call = "cancel"

\* Nothing went wrong in the rollback: no engine call of it failed and its
\* own deadline did not expire.
RollbackUntroubled(t) ==
    \A i \in StopIdx(t) : trace[t][i].ok /\ trace[t][i].call # "cancel"

\* C24: the context of the rollback is cancelled only by what happens after
\* the rollback began (its own deadline), never by the cancellation of the
\* caller's context; so the rollback of a Start that the caller cancelled,
\* when none of its engine calls fails and its deadline does not expire,
\* lists all three kinds and leaves nothing of the project.
C24_RollbackOutlivesCaller ==
    \A t \in Instances :
        rollback[t] =>
            /\ ctx[t] = "cancelled" => Cancelled(t)
            /\ (StartDone(t) /\ CallerCancelled(t) /\ RollbackUntroubled(t)) =>
                  /\ \A call \in {"ContainerList", "NetworkList", "VolumeList"} :
                        \E i \in StopIdx(t) : trace[t][i].call = call
                  /\ NothingLeft

\* A Start that had created the volume was cancelled by its caller; its
\* rollback removed the volume and left nothing.
C24_Witness ==
    \E t \in Instances :
        /\ StartDone(t) /\ rollback[t] /\ CallerCancelled(t) /\ RollbackUntroubled(t)
        /\ \E i \in StartIdx(t) : trace[t][i].call = "VolumeCreate" /\ trace[t][i].ok
        /\ \E i \in StopIdx(t) : trace[t][i].call = "VolumeRemove" /\ trace[t][i].ok
        /\ NothingLeft

\* -------------------------------------------------------------------- C25
\* C25 (as claimed): Start takes a container for the container of a service
\* only when its name is the service's container name: the container it
\* starts in place of creating one bears that name, and a Start that returned
\* nil has left a container of that name for every service.
C25_ExactNameLookup ==
    \A t \in Instances :
        /\ \A i \in StartIdx(t) :
              (trace[t][i].call = "ContainerStart" /\ trace[t][i].existing) =>
                  \A c \in containers :
                      c.id = trace[t][i].arg => c.name = containerName(trace[t][i].svc)
        /\ (StartDone(t) /\ ret[t] = Nil) =>
              \A s \in services : \E c \in containers : c.name = containerName(s)

\* -------------------------------------------------------------------- C26
\* The remove attempts of the running Stop on one container or one network.
Attempts(t, call, id) ==
    {i \in StopIdx(t) : trace[t][i].call = call /\ trace[t][i].arg = id}

\* All the attempts the retry loop makes on one object were made and failed.
Exhausted(t, call, id) ==
    /\ Cardinality(Attempts(t, call, id)) = 3
    /\ \A i \in Attempts(t, call, id) : ~trace[t][i].ok

RetryBudget(t, call, ids) ==
    \A id \in ids :
        /\ Cardinality(Attempts(t, call, id)) <= 3
        /\ \A i, j \in Attempts(t, call, id) : trace[t][i].ok => j <= i

\* C26: in one Stop a container and a network get at most 3 remove attempts
\* each and none after a successful one; a resource whose 3 attempts failed
\* does not end the phase: when the Stop has returned without cancellation
\* and with its listings done, every container and network of the project
\* still on the engine has had its 3 attempts, the others were removed.
C26_RetryBudget ==
    \A t \in Instances :
        op[t] = "Stop" =>
            /\ RetryBudget(t, "ContainerRemove", 1..nextId)
            /\ RetryBudget(t, "NetworkRemove", 1..nextId)
            /\ (StopCalledDone(t) /\ ~Cancelled(t) /\ ~ListFailed(t)) =>
                  /\ \A c \in ProjectContainers : Exhausted(t, "ContainerRemove", c.id)
                  /\ \A n \in ProjectNetworks : Exhausted(t, "NetworkRemove", n.id)

\* The Stop gave up on one container after 3 failed attempts, went on to
\* remove the other container (listed after it) and the network, and returned.
C26_Witness ==
    \E t \in Instances :
        /\ StopCalledDone(t) /\ ~Cancelled(t) /\ ~ListFailed(t)
        /\ \E c \in ProjectContainers :
              /\ Exhausted(t, "ContainerRemove", c.id)
              /\ \E i \in StopIdx(t) :
                    /\ trace[t][i].call = "ContainerRemove" /\ trace[t][i].ok
                    /\ \A j \in Attempts(t, "ContainerRemove", c.id) : j < i
        /\ \E i \in StopIdx(t) : trace[t][i].call = "NetworkRemove" /\ trace[t][i].ok

\* -------------------------------------------------------------------- C27
\* The kind of resource an engine call works on.
KindOf(call) ==
    IF call \in ContainerCalls THEN "container"
    ELSE IF call = "NetworkRemove" THEN "network"
    ELSE IF call = "VolumeRemove" THEN "volume"
    ELSE "none"

\* C27 (as claimed): once the context of a Stop is cancelled, that Stop issues
\* stop, kill and remove calls for at most the one resource it had already
\* passed the cancellation check for: never for two resources.
C27_CancelEndsCalls ==
    \A t \in Instances :
        \A k \in StopIdx(t) :
            trace[t][k].call = "cancel" =>
                \A i, j \in StopIdx(t) :
                    (i > k /\ j > k /\ KindOf(trace[t][i].call) # "none"
                        /\ KindOf(trace[t][j].call) # "none")
                    => /\ KindOf(trace[t][i].call) = KindOf(trace[t][j].call)
                       /\ trace[t][i].arg = trace[t][j].arg

\* -------------------------------------------------------------------- C28
\* C28 (as claimed): when a Stop call has returned, the instance's networkIDs
\* has no entry and its volumeNames is empty.
C28_CachesCleared ==
    \A t \in Instances :
        StopCalledDone(t) => (networkIDs[t] = {} /\ volumeNames[t] = <<>>)

\* -------------------------------------------------------------------- C29
\* The create requests that the running calls have sent for one name.
CreateRequests(call, name) ==
    UNION {{<<t, i>> : i \in {j \in Idx(t) : trace[t][j].call = call
                                             /\ trace[t][j].arg = name}} :
           t \in Instances}

\* C29 (as claimed): while no engine call fails for a reason of the engine's
\* own and no context is cancelled, the Starts that run at the same time send
\* at most one create request for each network, volume and service container,
\* and none of them fails.
C29_CreatedOnce ==
    faults = MaxFaults - 1 =>
        /\ \A n \in Networks : Cardinality(CreateRequests("NetworkCreate", ScopedName(n))) <= 1
        /\ \A v \in Volumes : Cardinality(CreateRequests("VolumeCreate", ScopedName(v))) <= 1
        /\ \A s \in services : Cardinality(CreateRequests("ContainerCreate", s)) <= 1
        /\ \A t \in Instances : startErr[t] = Nil

\* -------------------------------------------------------------------- C30
\* C30: when Start has returned an error and nothing went wrong in its
\* rollback, the engine holds nothing with the project's label: what existed
\* before the call is removed with what the call created.
C30_RollbackRemovesAll ==
    \A t \in Instances :
        (StartDone(t) /\ rollback[t] /\ RollbackUntroubled(t)) =>
            /\ ret[t] # Nil
            /\ NothingLeft

\* A second Start failed before it created anything; its rollback removed the
\* containers, the network and the volume that the first Start had created.
C30_Witness ==
    \E t \in Instances :
        /\ StartDone(t) /\ rollback[t] /\ RollbackUntroubled(t)
        /\ calls = 2 /\ lastStart.valid /\ lastStart.running # {}
        /\ \A i \in StartIdx(t) :
              trace[t][i].call \notin {"NetworkCreate", "VolumeCreate", "ContainerCreate"}
        /\ Cardinality(Removed(t, "ContainerRemove")) = Cardinality(Services)
        /\ Removed(t, "NetworkRemove") # {}
        /\ Removed(t, "VolumeRemove") # {}
        /\ NothingLeft

====
